---- MODULE Spec2Model ----
(***************************************************************************)
(* Model of the analysis engine of Contextrs (src/src/analysis.rs) and of  *)
(* the part of the UI loop that drives it (src/src/main.rs).               *)
(*                                                                         *)
(* Text representation.  A string is kept split at the two characters the  *)
(* code looks for: it is a sequence of raw segments (the pieces between    *)
(* '/'), and a segment is the sequence of its pieces between '.'.          *)
(*     "./b.js"     is  << <<"","">>, <<"b","js">> >>                      *)
(*     "./foo.bar/" is  << <<"","">>, <<"foo","bar">>, <<"">> >>           *)
(*     ".."         is  << <<"","","">> >>                                 *)
(* The pieces ("atoms") hold no '/' and no '.'.  The split is a bijection, *)
(* so nothing of the string is lost.  A std::path::Path is kept as the     *)
(* sequence of its components(), which is what Path's ==, Hash, Ord,       *)
(* parent, file_name, extension and join are defined on.                   *)
(***************************************************************************)
EXTENDS Naturals, Sequences, FiniteSets, TLC

\* ------------------------------------------------------------------ bounds
\* Number of files of the scanned tree.
MaxFiles == 2
\* Number of scans the user starts.
MaxScans == 2
\* Number of members of the file set handed to resolve_import_path.
MaxSetSize == 2
\* Number of files handed to generate_structure_section.
MaxReportFiles == 3
\* Number of connections handed to a section generator.
MaxConnections == 3
\* Number of definitions handed to generate_definitions_section.
MaxDefinitions == 3

\* ------------------------------------------------------------- Option<T>
None == {}
Some(v) == {v}
Unwrap(o) == CHOOSE v \in o : TRUE

\* ------------------------------------------------------------ components
RootDir == <<"/">>
CurDir == <<"", "">>
ParentDir == <<"", "", "">>
IsNormal(c) == c # RootDir /\ c # CurDir /\ c # ParentDir

\* A file or directory name without a dot, and with one extension.
N(a) == <<a>>
NE(a, e) == <<a, e>>

\* The atoms that hold a ':'.
ColonAtoms == {"c:", "http:"}

\* str::starts_with('.')
StartsWithDot(s) == Len(s[1]) >= 2 /\ s[1][1] = ""

\* str::contains(':')
ContainsColon(s) ==
    \E i \in 1..Len(s) : \E j \in 1..Len(s[i]) : s[i][j] \in ColonAtoms

\* str::ends_with('/')
EndsWithSlash(s) == Len(s) >= 2 /\ s[Len(s)] = <<"">>

\* Path::new(s).components(): a leading '/' is RootDir, empty segments and
\* '.' segments are dropped, except a '.' that starts a relative path.
RECURSIVE ComponentsFrom(_, _)
ComponentsFrom(s, i) ==
    IF i > Len(s) THEN <<>>
    ELSE IF s[i] = <<"">> THEN ComponentsFrom(s, i + 1)
    ELSE IF s[i] = CurDir /\ i > 1 THEN ComponentsFrom(s, i + 1)
    ELSE <<s[i]>> \o ComponentsFrom(s, i + 1)

Components(s) ==
    IF Len(s) >= 2 /\ s[1] = <<"">>
    THEN <<RootDir>> \o ComponentsFrom(s, 2)
    ELSE ComponentsFrom(s, 1)

\* Path::parent
Parent(p) ==
    IF p = <<>> \/ p[Len(p)] = RootDir THEN None
    ELSE Some(SubSeq(p, 1, Len(p) - 1))

\* Path::join / PathBuf::push: an absolute argument replaces the path; a
\* '.' that starts the argument ends up inside the path and is dropped.
Join(p, q) ==
    IF q # <<>> /\ q[1] = RootDir THEN q
    ELSE IF p = <<>> THEN q
    ELSE IF q # <<>> /\ q[1] = CurDir THEN p \o Tail(q)
    ELSE p \o q

\* Path::file_name
FileName(p) ==
    IF p # <<>> /\ IsNormal(p[Len(p)]) THEN Some(p[Len(p)]) ELSE None

\* The extension of a file name: the part after the last '.', unless the
\* name has no '.' or only starts with one.
NameHasExtension(c) == Len(c) >= 2 /\ ~(Len(c) = 2 /\ c[1] = "")

\* Path::extension
Extension(p) ==
    IF FileName(p) # None /\ NameHasExtension(Unwrap(FileName(p)))
    THEN Some(Unwrap(FileName(p))[Len(Unwrap(FileName(p)))])
    ELSE None

\* Path::file_stem
FileStem(p) ==
    IF FileName(p) = None THEN None
    ELSE LET c == Unwrap(FileName(p))
         IN IF NameHasExtension(c) THEN Some(SubSeq(c, 1, Len(c) - 1))
            ELSE Some(c)

\* PathBuf::set_file_name
SetFileName(p, name) ==
    IF FileName(p) # None THEN SubSeq(p, 1, Len(p) - 1) \o <<name>>
    ELSE p \o <<name>>

\* PathBuf::set_extension with a non-empty extension: the extension is
\* REPLACED when the name has one; a path without file name is unchanged.
SetExtension(p, e) ==
    IF FileStem(p) = None THEN p
    ELSE SubSeq(p, 1, Len(p) - 1) \o <<Unwrap(FileStem(p)) \o <<e>>>>

\* path_clean::PathClean::clean
RECURSIVE CleanFrom(_, _, _)
CleanFrom(p, i, out) ==
    IF i > Len(p) THEN out
    ELSE IF p[i] = CurDir THEN CleanFrom(p, i + 1, out)
    ELSE IF p[i] = ParentDir
         THEN IF out # <<>> /\ out[Len(out)] = RootDir
              THEN CleanFrom(p, i + 1, out)
              ELSE IF out # <<>> /\ IsNormal(out[Len(out)])
                   THEN CleanFrom(p, i + 1, SubSeq(out, 1, Len(out) - 1))
                   ELSE CleanFrom(p, i + 1, Append(out, p[i]))
         ELSE CleanFrom(p, i + 1, Append(out, p[i]))

Clean(p) ==
    LET out == CleanFrom(p, 1, <<>>)
    IN IF out = <<>> THEN <<CurDir>> ELSE out

\* ------------------------------------------------------ resolve_import_path
extensions == <<"", "js", "jsx", "ts", "tsx", "mjs", "cjs">>
index_files == <<NE("index", "js"), NE("index", "jsx"), NE("index", "ts"),
                 NE("index", "tsx"), NE("index", "mjs"), NE("index", "cjs")>>

\* The first path of a sequence that is in a set.
RECURSIVE FirstIn(_, _, _)
FirstIn(cands, i, files) ==
    IF i > Len(cands) THEN None
    ELSE IF cands[i] \in files THEN Some(cands[i])
    ELSE FirstIn(cands, i + 1, files)

\* potential_path of one round of the extension loop, cleaned.
FinalPath(cleaned_base_path, ext) ==
    IF ext = "" THEN Clean(cleaned_base_path)
    ELSE LET current_filename ==
                 IF FileName(cleaned_base_path) = None THEN <<"">>
                 ELSE Unwrap(FileName(cleaned_base_path))
         IN IF Extension(cleaned_base_path) = None
               \/ Unwrap(Extension(cleaned_base_path)) # ext
            THEN Clean(SetFileName(cleaned_base_path,
                                   current_filename \o <<ext>>))
            ELSE Clean(cleaned_base_path)

\* The `Caso especial` of the loop: taken for an import that ends in '/'
\* or has itself no extension.
SpecialCase(import_str) ==
    EndsWithSlash(import_str) \/ Extension(Components(import_str)) = None

\* The paths one round of the loop tests, in the order it tests them.
RoundCandidates(cleaned_base_path, ext, import_str) ==
    <<FinalPath(cleaned_base_path, ext)>>
    \o (IF SpecialCase(import_str) /\ ext # ""
        THEN <<Clean(SetExtension(cleaned_base_path, ext))>>
        ELSE <<>>)

RECURSIVE FileCandidates(_, _, _)
FileCandidates(cleaned_base_path, import_str, i) ==
    IF i > Len(extensions) THEN <<>>
    ELSE RoundCandidates(cleaned_base_path, extensions[i], import_str)
         \o FileCandidates(cleaned_base_path, import_str, i + 1)

IndexCandidates(cleaned_base_path) ==
    [i \in 1..Len(index_files) |->
        Clean(Join(cleaned_base_path, <<index_files[i]>>))]

\* (Variant: only the ':' is tested.)
ColonTestOnly(import_str) == ~ContainsColon(import_str)
\* The eligibility test at the head of resolve_import_path.
Eligible(import_str) ==
    StartsWithDot(import_str) /\ ~ContainsColon(import_str)

ResolveImportPath(source_file, import_str, project_files) ==
    IF ~Eligible(import_str) THEN None
    ELSE IF Parent(source_file) = None THEN None
    ELSE LET source_dir == Unwrap(Parent(source_file))
             cleaned_base_path ==
                 Clean(Join(source_dir, Components(import_str)))
         IN FirstIn(FileCandidates(cleaned_base_path, import_str, 1)
                    \o IndexCandidates(cleaned_base_path), 1, project_files)

\* ------------------------------------------------------------ path order
\* The atoms of the model in byte order.  Every character of an atom is
\* greater than '.', so comparing names atom by atom is comparing their text.
AtomOrder == <<"", "01", "1", "a", "b", "c", "c:", "deep", "f2",
               "f99999999999999999999", "file10", "file2", "index", "js",
               "lock", "lodash", "m", "md", "node_modules", "notes", "proj",
               "sub", "t", "target", "ts", "util", "x", "yarn">>
AtomRank(a) == CHOOSE i \in 1..Len(AtomOrder) : AtomOrder[i] = a

RECURSIVE NameLess(_, _)
NameLess(c, d) ==
    IF c = <<>> THEN d # <<>>
    ELSE IF d = <<>> THEN FALSE
    ELSE IF Head(c) = Head(d) THEN NameLess(Tail(c), Tail(d))
    ELSE AtomRank(Head(c)) < AtomRank(Head(d))

\* Component's derived order: RootDir < CurDir < ParentDir < Normal(name).
KindRank(c) ==
    IF c = RootDir THEN 1 ELSE IF c = CurDir THEN 2
    ELSE IF c = ParentDir THEN 3 ELSE 4

ComponentLess(c, d) ==
    IF KindRank(c) # KindRank(d) THEN KindRank(c) < KindRank(d)
    ELSE IsNormal(c) /\ NameLess(c, d)

\* Ord of PathBuf: the components compared in order.
RECURSIVE PathLess(_, _)
PathLess(p, q) ==
    IF p = <<>> THEN q # <<>>
    ELSE IF q = <<>> THEN FALSE
    ELSE IF Head(p) = Head(q) THEN PathLess(Tail(p), Tail(q))
    ELSE ComponentLess(Head(p), Head(q))

\* Vec::sort of a vector of paths.
RECURSIVE InsertSorted(_, _)
InsertSorted(sorted, p) ==
    IF sorted = <<>> THEN <<p>>
    ELSE IF PathLess(p, Head(sorted)) THEN <<p>> \o sorted
    ELSE <<Head(sorted)>> \o InsertSorted(Tail(sorted), p)

RECURSIVE SortPaths(_)
SortPaths(v) ==
    IF v = <<>> THEN <<>>
    ELSE InsertSorted(SortPaths(SubSeq(v, 1, Len(v) - 1)), v[Len(v)])

\* ------------------------------------------------------------------ text
\* The characters of an atom, as code points (str::chars).
Chars(a) ==
    CASE a = "" -> <<>>
      [] a = "/" -> <<47>>
      [] a = "01" -> <<48, 49>>
      [] a = "1" -> <<49>>
      [] a = "a" -> <<97>>
      [] a = "b" -> <<98>>
      [] a = "c" -> <<99>>
      [] a = "c:" -> <<99, 58>>
      [] a = "deep" -> <<100, 101, 101, 112>>
      [] a = "f2" -> <<102, 50>>
      [] a = "f99999999999999999999" ->
            <<102, 57, 57, 57, 57, 57, 57, 57, 57, 57, 57, 57, 57, 57, 57,
              57, 57, 57, 57, 57, 57>>
      [] a = "file10" -> <<102, 105, 108, 101, 49, 48>>
      [] a = "file2" -> <<102, 105, 108, 101, 50>>
      [] a = "index" -> <<105, 110, 100, 101, 120>>
      [] a = "js" -> <<106, 115>>
      [] a = "lock" -> <<108, 111, 99, 107>>
      [] a = "lodash" -> <<108, 111, 100, 97, 115, 104>>
      [] a = "m" -> <<109>>
      [] a = "md" -> <<109, 100>>
      [] a = "node_modules" ->
            <<110, 111, 100, 101, 95, 109, 111, 100, 117, 108, 101, 115>>
      [] a = "notes" -> <<110, 111, 116, 101, 115>>
      [] a = "proj" -> <<112, 114, 111, 106>>
      [] a = "sub" -> <<115, 117, 98>>
      [] a = "t" -> <<116>>
      [] a = "target" -> <<116, 97, 114, 103, 101, 116>>
      [] a = "ts" -> <<116, 115>>
      [] a = "util" -> <<117, 116, 105, 108>>
      [] a = "x" -> <<120>>
      [] a = "yarn" -> <<121, 97, 114, 110>>
      [] a = "f" -> <<102>>
      [] a = "g" -> <<103>>
      [] a = "B" -> <<66>>
      [] a = "Function" -> <<70, 117, 110, 99, 116, 105, 111, 110>>
      [] a = "Class" -> <<67, 108, 97, 115, 115>>
      [] a = "Variable" -> <<86, 97, 114, 105, 97, 98, 108, 101>>

\* The text of a component (Component::as_os_str) and of a raw segment: its
\* pieces with a '.' between them.
RECURSIVE NameText(_)
NameText(c) ==
    IF c = <<>> THEN <<>>
    ELSE IF Len(c) = 1 THEN Chars(c[1])
    ELSE Chars(c[1]) \o <<46>> \o NameText(Tail(c))

\* Names with a '/' between them.
RECURSIVE JoinNames(_)
JoinNames(v) ==
    IF v = <<>> THEN <<>>
    ELSE IF Len(v) = 1 THEN NameText(v[1])
    ELSE NameText(v[1]) \o <<47>> \o JoinNames(Tail(v))

\* Path::display and Path::to_string_lossy of a normalized path.
PathText(p) ==
    IF p # <<>> /\ p[1] = RootDir THEN <<47>> \o JoinNames(Tail(p))
    ELSE JoinNames(p)

\* The text of a specifier (imported_string).
ImportText(import_str) == JoinNames(import_str)

\* String's Ord: the bytes compared in order.
RECURSIVE TextLess(_, _)
TextLess(s, t) ==
    IF s = <<>> THEN t # <<>>
    ELSE IF t = <<>> THEN FALSE
    ELSE IF Head(s) = Head(t) THEN TextLess(Tail(s), Tail(t))
    ELSE Head(s) < Head(t)

\* ------------------------------------------- reporting.rs: natural order
\* char::is_ascii_digit
IsAsciiDigit(ch) == ch >= 48 /\ ch <= 57

\* The index after the digit run that starts at s[i].
RECURSIVE RunEnd(_, _)
RunEnd(s, i) ==
    IF i <= Len(s) /\ IsAsciiDigit(s[i]) THEN RunEnd(s, i + 1) ELSE i

\* A number is kept as its decimal digits without leading zeros (0 is the
\* empty sequence), so that u64 keeps its full width.
RECURSIVE StripZeros(_)
StripZeros(digits) ==
    IF digits # <<>> /\ Head(digits) = 48 THEN StripZeros(Tail(digits))
    ELSE digits

\* u64::MAX, 18446744073709551615
U64_MAX == <<49, 56, 52, 52, 54, 55, 52, 52, 48, 55, 51,
             55, 48, 57, 53, 53, 49, 54, 49, 53>>

\* u64's Ord on two such numbers.
NumberLess(m, n) ==
    IF Len(m) # Len(n) THEN Len(m) < Len(n) ELSE TextLess(m, n)

\* (Variant: the digits are parsed into an integer of any width.)
ParseUnbounded(num_str) == StripZeros(num_str)
\* num_str.parse::<u64>().unwrap_or_default(): a run that does not fit in
\* 64 bits fails to parse and counts as 0.
ParseU64(num_str) ==
    IF NumberLess(U64_MAX, StripZeros(num_str)) THEN <<>>
    ELSE StripZeros(num_str)

\* natural_lexical_cmp_revised, from s1[i] and s2[j] on.
RECURSIVE NaturalCmpFrom(_, _, _, _)
NaturalCmpFrom(s1, i, s2, j) ==
    IF i <= Len(s1) /\ j <= Len(s2)
    THEN IF IsAsciiDigit(s1[i]) /\ IsAsciiDigit(s2[j])
         THEN LET num1 == ParseU64(SubSeq(s1, i, RunEnd(s1, i) - 1))
                  num2 == ParseU64(SubSeq(s2, j, RunEnd(s2, j) - 1))
              IN IF num1 = num2
                 THEN NaturalCmpFrom(s1, RunEnd(s1, i), s2, RunEnd(s2, j))
                 ELSE IF NumberLess(num1, num2) THEN "Less" ELSE "Greater"
         ELSE IF s1[i] = s2[j] THEN NaturalCmpFrom(s1, i + 1, s2, j + 1)
              ELSE IF s1[i] < s2[j] THEN "Less" ELSE "Greater"
    ELSE IF i <= Len(s1) THEN "Greater"
    ELSE IF j <= Len(s2) THEN "Less"
    ELSE "Equal"

natural_lexical_cmp_revised(s1, s2) == NaturalCmpFrom(s1, 1, s2, 1)

\* compare_paths_naturally: the components compared in order.
RECURSIVE compare_paths_naturally(_, _)
compare_paths_naturally(a, b) ==
    IF a # <<>> /\ b # <<>>
    THEN LET c == natural_lexical_cmp_revised(NameText(Head(a)),
                                              NameText(Head(b)))
         IN IF c = "Equal" THEN compare_paths_naturally(Tail(a), Tail(b))
            ELSE c
    ELSE IF a # <<>> THEN "Greater"
    ELSE IF b # <<>> THEN "Less"
    ELSE "Equal"

\* sorted_files.sort_by(compare_paths_naturally): a stable sort, paths that
\* compare Equal keep the order they came in.
RECURSIVE InsertNaturally(_, _)
InsertNaturally(sorted, p) ==
    IF sorted = <<>> THEN <<p>>
    ELSE IF compare_paths_naturally(p, Head(sorted)) = "Less"
         THEN <<p>> \o sorted
         ELSE <<Head(sorted)>> \o InsertNaturally(Tail(sorted), p)

RECURSIVE SortNaturally(_)
SortNaturally(v) ==
    IF v = <<>> THEN <<>>
    ELSE InsertNaturally(SortNaturally(SubSeq(v, 1, Len(v) - 1)), v[Len(v)])

\* ------------------------------------------------------------ file system
\* The regular files that may exist, by absolute path.
FileA == <<RootDir, N("proj"), NE("a", "js")>>
FileB == <<RootDir, N("proj"), NE("b", "js")>>
FileUtil == <<RootDir, N("proj"), N("util"), NE("index", "ts")>>
FileDep == <<RootDir, N("proj"), N("node_modules"), NE("m", "js")>>
FileBuilt == <<RootDir, N("proj"), N("sub"), N("target"), NE("t", "js")>>
FileLock == <<RootDir, N("proj"), NE("yarn", "lock")>>
FileNotes == <<RootDir, N("proj"), NE("notes", "md")>>
FileC == <<RootDir, N("target"), NE("c", "js")>>

FsUniverse ==
    {FileA, FileB, FileUtil, FileDep, FileBuilt, FileLock, FileNotes, FileC}

\* What the two queries would match in each file: the specifiers of its
\* import/require/export statements and its definitions.
ImportsOf(file) ==
    IF file = FileA THEN << <<CurDir, N("b")>>, <<N("lodash")>> >>
    ELSE IF file = FileUtil
    THEN << <<ParentDir, N("a")>>, <<ParentDir, N("a")>> >>
    ELSE IF file = FileDep THEN << <<ParentDir, N("a")>> >>
    ELSE IF file = FileNotes THEN << <<CurDir, N("a")>> >>
    ELSE IF file = FileC THEN << <<CurDir, N("c")>> >>
    ELSE <<>>

DefinitionsOf(file) ==
    IF file = FileA
    THEN << [symbol_name |-> "f", kind |-> "Function", line_number |-> 1] >>
    ELSE IF file = FileB
    THEN << [symbol_name |-> "B", kind |-> "Class", line_number |-> 2] >>
    ELSE IF file = FileNotes
    THEN << [symbol_name |-> "g", kind |-> "Function", line_number |-> 1] >>
    ELSE IF file = FileC
    THEN << [symbol_name |-> "c", kind |-> "Variable", line_number |-> 3] >>
    ELSE <<>>

\* The folders the folder picker may return.
Roots ==
    { <<RootDir, N("proj")>>,
      <<RootDir, N("target")>>,
      <<CurDir, N("proj")>> }

\* The working directory of the process, against which the system resolves
\* a relative path.
Cwd == <<RootDir>>
Physical(path) == Clean(Join(Cwd, path))

IsPrefix(d, p) == Len(d) <= Len(p) /\ SubSeq(p, 1, Len(d)) = d

\* A directory exists when a file lies below it.
DirExists(files, d) == \E f \in files : Len(d) < Len(f) /\ IsPrefix(d, f)

\* The names read_dir lists in a directory.
ChildNames(files, d) ==
    {f[Len(d) + 1] : f \in {g \in files : Len(d) < Len(g) /\ IsPrefix(d, g)}}

\* All orders in which a set can be listed.
Orders(S) ==
    {o \in [1..Cardinality(S) -> S] :
        \A i, j \in 1..Cardinality(S) : i # j => o[i] # o[j]}

\* -------------------------------------------------------------- constants
IGNORED_DIRS ==
    {<<"node_modules">>, <<"", "git">>, <<"", "next">>, <<"", "cursor">>,
     <<"target">>}
IGNORED_FILES ==
    {<<"pnpm-lock", "yaml">>, <<"yarn", "lock">>, <<"package-lock", "json">>}

\* (Variant: every entry is tested against IGNORED_FILES only.)
IgnoresFilesOnly(entry) ==
    FileName(entry.path) # None
    /\ Unwrap(FileName(entry.path)) \in IGNORED_FILES
\* is_ignored: a directory is tested against IGNORED_DIRS, everything else
\* against IGNORED_FILES, by the last component of its path.
IsIgnored(entry) ==
    IF FileName(entry.path) = None THEN FALSE
    ELSE IF entry.is_dir
         THEN Unwrap(FileName(entry.path)) \in IGNORED_DIRS
         ELSE Unwrap(FileName(entry.path)) \in IGNORED_FILES

\* ------------------------------------------------------ analyze_file_content
SupportedExtensions == {"js", "jsx", "mjs", "cjs", "ts", "tsx"}

\* What the environment does to one call: "read_error" makes
\* fs::read_to_string fail (an I/O error or text that is not UTF-8),
\* "parse_error" makes parser.parse return None, "ok" neither.
Environments == {"ok", "read_error", "parse_error"}

\* (Variant: no early return, every file is read, parsed and queried.)
ParsesEverything(path, env) ==
    [connections |->
         [i \in 1..Len(ImportsOf(Physical(path))) |->
             [source_file |-> path,
              imported_string |-> ImportsOf(Physical(path))[i]]],
     definitions |->
         [i \in 1..Len(DefinitionsOf(Physical(path))) |->
             [source_file |-> path,
              symbol_name |-> DefinitionsOf(Physical(path))[i].symbol_name,
              kind |-> DefinitionsOf(Physical(path))[i].kind,
              line_number |-> DefinitionsOf(Physical(path))[i].line_number]]]
\* analyze_file_content(path): the connections and definitions of the file,
\* each attributed to `path` as the walker gave it; both empty after each of
\* the early returns.
AnalyzeFileContent(path, env) ==
    IF env = "read_error"
    THEN [connections |-> <<>>, definitions |-> <<>>]
    ELSE IF Extension(path) = None
            \/ Unwrap(Extension(path)) \notin SupportedExtensions
    THEN [connections |-> <<>>, definitions |-> <<>>]
    ELSE IF env = "parse_error"
    THEN [connections |-> <<>>, definitions |-> <<>>]
    ELSE [connections |->
              [i \in 1..Len(ImportsOf(Physical(path))) |->
                  [source_file |-> path,
                   imported_string |-> ImportsOf(Physical(path))[i]]],
          definitions |->
              [i \in 1..Len(DefinitionsOf(Physical(path))) |->
                  [source_file |-> path,
                   symbol_name |-> DefinitionsOf(Physical(path))[i].symbol_name,
                   kind |-> DefinitionsOf(Physical(path))[i].kind,
                   line_number |-> DefinitionsOf(Physical(path))[i].line_number]]]

\* ------------------------------- analyze_file_content, on one statement
\* The file holds one statement. Its text is kept where the code reads it:
\* the form of the statement, the identifier it declares ("" when the
\* parser supplied a missing identifier of width zero), the string or
\* template literal it names as code points with its delimiters, the row
\* (0-based) on which the statement starts, and how many rows below the
\* identifier stands.
MaxRow == 2

DefinitionForms ==
    {"function",                 \* function Foo() {}
     "lexical_function",         \* const Foo = () => {}
     "lexical_value",            \* const Foo = 1
     "class",                    \* class Foo {}
     "export_function",          \* export function Foo() {}
     "export_class",             \* export class Foo {}
     "export_lexical",           \* export const Foo = 1
     "export_lexical_function",  \* export const Foo = () => {}
     "export_var"}               \* export var Foo = 1

StringForms ==
    {"import",               \* import x from '...'
     "export_from",          \* export * from '...'
     "require_string",       \* require('...')
     "import_call_string",   \* import('...')
     "call_string"}          \* load('...')

TemplateForms ==
    {"require_template",     \* require(`...`)
     "import_call_template"} \* import(`...`)

\* line 144: the characters trim_matches removes: ' " `
QuoteChars == {39, 34, 96}

\* What stands between the delimiters q: nothing, ./b, or x in quotes of
\* another kind.
Bodies(q) ==
    LET other == IF q = 39 THEN 34 ELSE 39
    IN {<<>>, <<46, 47, 98>>, <<other, 120, other>>}

Literal(q, body) == <<q>> \o body \o <<q>>

Statements ==
    [form : DefinitionForms, name : {"Foo", ""}, literal : {<<>>},
     row : 0..MaxRow, name_below : 0..1]
    \cup UNION {{[form |-> f, name |-> "", literal |-> Literal(q, b),
                  row |-> r, name_below |-> 0] :
                    f \in StringForms, b \in Bodies(q), r \in 0..MaxRow} :
                q \in {39, 34}}
    \cup {[form |-> f, name |-> "", literal |-> Literal(96, b),
           row |-> r, name_below |-> 0] :
             f \in TemplateForms, b \in Bodies(96), r \in 0..MaxRow}

ExtractPaths ==
    {<<RootDir, NE("a", e)>> : e \in SupportedExtensions \cup {"md"}}
    \cup {<<RootDir, N("a")>>}

NoExtract ==
    [path |-> <<>>,
     statement |-> [form |-> "", name |-> "", literal |-> <<>>, row |-> 0,
                    name_below |-> 0]]

\* lines 74-79: the grammar of an extension
language_ref(ext) ==
    IF ext = None THEN None
    ELSE IF Unwrap(ext) \in {"js", "jsx", "mjs", "cjs"}
    THEN Some("javascript")
    ELSE IF Unwrap(ext) = "ts" THEN Some("typescript")
    ELSE IF Unwrap(ext) = "tsx" THEN Some("tsx")
    ELSE None

\* (Variant: one definition query, with identifier, for every grammar.)
IdentifierEverywhere(ext) ==
    IF language_ref(ext) = None THEN None ELSE Some("identifier")
\* lines 158-209: the node kind the definition query asks of a class name
ClassNamePattern(ext) ==
    IF ext = None THEN None
    ELSE IF Unwrap(ext) \in {"js", "jsx", "mjs", "cjs"}
    THEN Some("identifier")
    ELSE IF Unwrap(ext) \in {"ts", "tsx"} THEN Some("type_identifier")
    ELSE None

\* The node kind each grammar gives the name of a class declaration.
ClassNameKind(language) ==
    IF language = "javascript" THEN "identifier" ELSE "type_identifier"

\* lines 160-200: the patterns whose shape a statement has, by the name of
\* the capture on the whole construct. An exported declaration is matched
\* as the export statement and as the declaration inside it.
DefinitionPatterns(form) ==
    CASE form = "function" -> <<"def.function">>
      [] form = "lexical_function" -> <<"def.function.lexical">>
      [] form = "class" -> <<"def.class">>
      [] form = "export_function" ->
            <<"def.function.exported.decl", "def.function">>
      [] form = "export_class" -> <<"def.class.exported.decl", "def.class">>
      [] form = "export_lexical" -> <<"def.var.exported.decl">>
      [] form = "export_lexical_function" ->
            <<"def.var.exported.decl", "def.function.lexical">>
      [] form = "export_var" -> <<"def.var.exported.decl.var">>
      [] OTHER -> <<>>

IsClassPattern(p) == p \in {"def.class", "def.class.exported.decl"}

\* lines 219-220: the matches of the definition query, each the captures of
\* one match: the construct, then the name inside it. A class pattern
\* matches when it asks for the node kind the grammar gives.
def_matches(language, class_pattern, stmt) ==
    LET patterns ==
            SelectSeq(DefinitionPatterns(stmt.form),
                      LAMBDA p : IsClassPattern(p) =>
                                    class_pattern = ClassNameKind(language))
    IN [k \in 1..Len(patterns) |->
           <<[name |-> patterns[k], text |-> stmt.form, row |-> stmt.row],
             [name |-> "def.name", text |-> stmt.name,
              row |-> stmt.row + stmt.name_below]>>]

\* lines 241-246
kind_str(capture_name) ==
    CASE capture_name \in {"def.function", "def.function.lexical",
                           "def.function.exported",
                           "def.function.exported.decl"} -> "Function"
      [] capture_name \in {"def.class", "def.class.exported.decl"} -> "Class"
      [] capture_name \in {"def.var.exported.decl",
                           "def.var.exported.decl.var",
                           "def.var.toplevel"} -> "Variable"
      [] OTHER -> "Definition"

NameCaptures(captures) ==
    SelectSeq(captures, LAMBDA c : c.name = "def.name")
KindCaptures(captures) ==
    SelectSeq(captures, LAMBDA c : c.name # "def.name")

\* (Variant: the line is taken from the node of the name.)
NameNodeForLine(captures) ==
    IF NameCaptures(captures) # <<>>
    THEN Some(NameCaptures(captures)[Len(NameCaptures(captures))])
    ELSE None
\* lines 248 and 254-258: the node of the last capture that gives a kind,
\* or else the first capture of the match.
NodeForLine(captures) ==
    IF KindCaptures(captures) # <<>>
    THEN Some(KindCaptures(captures)[Len(KindCaptures(captures))])
    ELSE IF captures # <<>> THEN Some(captures[1])
    ELSE None

\* lines 226-272: the definition pushed for one match, if any.
DefinitionOf(path, captures) ==
    LET names == NameCaptures(captures)
        kinds == KindCaptures(captures)
        node == NodeForLine(captures)
    IN IF /\ names # <<>>
          /\ kinds # <<>>
          /\ node # None
          /\ names[Len(names)].text # ""
       THEN <<[source_file |-> path,
               symbol_name |-> names[Len(names)].text,
               kind |-> kind_str(kinds[Len(kinds)].name),
               line_number |-> Unwrap(node).row + 1]>>
       ELSE <<>>

\* lines 97-121 and 134-135: the matches of the import query. The node of
\* a string or template string spans its delimiters; a call of another
\* identifier than require fails the #eq? predicate.
import_matches(stmt) ==
    LET source == [name |-> "import_path", text |-> stmt.literal,
                   row |-> stmt.row]
    IN CASE stmt.form \in {"import", "export_from"} -> << <<source>> >>
         [] stmt.form \in {"require_string", "require_template"} ->
               << <<[name |-> "require_func", text |-> <<>>,
                     row |-> stmt.row], source>> >>
         [] stmt.form \in {"import_call_string", "import_call_template"} ->
               << <<[name |-> "import_func", text |-> <<>>,
                     row |-> stmt.row], source>> >>
         [] OTHER -> <<>>

RECURSIVE TrimStartQuotes(_)
TrimStartQuotes(text) ==
    IF text # <<>> /\ Head(text) \in QuoteChars
    THEN TrimStartQuotes(Tail(text)) ELSE text

RECURSIVE TrimEndQuotes(_)
TrimEndQuotes(text) ==
    IF text # <<>> /\ text[Len(text)] \in QuoteChars
    THEN TrimEndQuotes(SubSeq(text, 1, Len(text) - 1)) ELSE text

\* (Variant: trim_start_matches, the closing delimiter stays.)
TrimsStartOnly(text) == TrimStartQuotes(text)
\* line 144: str::trim_matches with the three quote characters
trim_matches(text) == TrimEndQuotes(TrimStartQuotes(text))

\* lines 137-155: the connection pushed for one match, if any: from the
\* first capture named import_path.
ConnectionOf(path, captures) ==
    LET found == SelectSeq(captures, LAMBDA c : c.name = "import_path")
    IN IF found = <<>> \/ trim_matches(found[1].text) = <<>> THEN <<>>
       ELSE <<[source_file |-> path,
               imported_string |-> trim_matches(found[1].text)]>>

RECURSIVE ConcatAll(_)
ConcatAll(seqs) ==
    IF seqs = <<>> THEN <<>> ELSE Head(seqs) \o ConcatAll(Tail(seqs))

\* analyze_file_content(path) on the text of one statement; imported_string
\* is kept as code points here.
AnalyzeFileText(path, stmt, env) ==
    IF env = "read_error" THEN [connections |-> <<>>, definitions |-> <<>>]
    ELSE IF language_ref(Extension(path)) = None
    THEN [connections |-> <<>>, definitions |-> <<>>]
    ELSE IF env = "parse_error"
    THEN [connections |-> <<>>, definitions |-> <<>>]
    ELSE LET language == Unwrap(language_ref(Extension(path)))
             imports == import_matches(stmt)
             connections ==
                 ConcatAll([k \in 1..Len(imports) |->
                               ConnectionOf(path, imports[k])])
         IN IF ClassNamePattern(Extension(path)) = None
            THEN [connections |-> connections, definitions |-> <<>>]
            ELSE LET defs ==
                         def_matches(language,
                                     Unwrap(ClassNamePattern(Extension(path))),
                                     stmt)
                 IN [connections |-> connections,
                     definitions |->
                         ConcatAll([k \in 1..Len(defs) |->
                                       DefinitionOf(path, defs[k])])]

\* ----------------------------------------------------------------- state
VARIABLES
    rq,             \* the arguments of a call of resolve_import_path
    ra,             \* its result
    fs,             \* the regular files that exist
    scan_status,    \* MyApp.scan_status
    scan_receiver,  \* MyApp.scan_receiver: None or Some(channel)
    sections,       \* MyApp's five *_section fields
    include_file_content,   \* MyApp.include_file_content
    filters,        \* MyApp's four filter_* fields
    repaint_requested,      \* whether the last update called request_repaint
    scan_count,     \* number of start_analysis calls so far
    worker,         \* the worker thread of each start_analysis call
    channel,        \* the mpsc channel of each start_analysis call
    sent,           \* history: values sent by each worker
    received,       \* history: values the caller received from each channel
    first_scan,     \* history: the first scan and what it delivered
    report_in,      \* the arguments of a call of a section generator
    report_out,     \* its result
    ex_in,          \* the file handed to analyze_file_content
    ex_out          \* what the call returned

vars == <<rq, ra, fs, scan_status, scan_receiver, sections,
          include_file_content, filters, repaint_requested, scan_count,
          worker, channel, sent, received, first_scan, report_in,
          report_out, ex_in, ex_out>>

resolve_vars == <<rq, ra>>
report_vars == <<report_in, report_out>>
ui_vars == <<include_file_content, filters, repaint_requested>>
extract_vars == <<ex_in, ex_out>>
scan_vars == <<fs, scan_status, scan_receiver, sections, scan_count,
               worker, channel, sent, received, first_scan, ui_vars,
               extract_vars>>

Scans == 1..MaxScans

\* A thread that is not running: before start_analysis, or after its
\* closure has returned and dropped its locals.
NoWorker(pc) ==
    [pc |-> pc, root_path |-> <<>>, stack |-> <<>>, descended |-> {},
     walker_entries |-> <<>>, project_files_set |-> {},
     initial_results |-> <<>>, outcomes |-> <<>>, files |-> <<>>,
     raw_connections |-> <<>>, definitions |-> <<>>, resolved |-> <<>>,
     tx |-> 0]

\* (Variant: file_content_section is left as it is.)
ClearsAnalysisSections(secs) ==
    [structure |-> None, connections |-> None,
     file_content |-> secs.file_content,
     definitions |-> None, inverse_usage |-> None]

\* MyApp::clear_generated_sections
clear_generated_sections(secs) ==
    [structure |-> None, connections |-> None, file_content |-> None,
     definitions |-> None, inverse_usage |-> None]

\* String::new() in each of the four filter fields.
NoFilters ==
    [structure |-> <<>>, connections |-> <<>>, definitions |-> <<>>,
     inverse_usage |-> <<>>]

\* MyApp::default: no section, no file content, empty filters.
UiInit ==
    /\ sections = [structure |-> None, connections |-> None,
                   file_content |-> None, definitions |-> None,
                   inverse_usage |-> None]
    /\ include_file_content = FALSE
    /\ filters = NoFilters
    /\ repaint_requested = FALSE

\* No section generator is being called.
NoReport ==
    [fn |-> "none", root_path |-> <<>>, files |-> <<>>, connections |-> <<>>,
     definitions |-> <<>>]

ScanInit ==
    /\ fs \in {F \in SUBSET FsUniverse : Cardinality(F) <= MaxFiles}
    /\ scan_status = [tag |-> "Idle"]
    /\ scan_receiver = None
    /\ UiInit
    /\ scan_count = 0
    /\ worker = [id \in Scans |-> NoWorker("idle")]
    /\ channel = [id \in Scans |-> [queue |-> <<>>, rx_dropped |-> FALSE]]
    /\ sent = [id \in Scans |-> 0]
    /\ received = [id \in Scans |-> 0]
    /\ first_scan = [root_path |-> None, result |-> None]
    /\ report_in = NoReport
    /\ report_out = None
    /\ ex_in = NoExtract
    /\ ex_out = None

\* ------------------------------------------------------------ the worker
\* The thread starts: WalkDir::new(&root_path) stats the root.  A root that
\* cannot be read yields an Err entry, which filter_map(|e| e.ok()) drops.
WalkRoot(id) ==
    /\ worker[id].pc = "start"
    /\ worker' = [worker EXCEPT
          ![id].pc = "walk",
          ![id].stack =
              IF DirExists(fs, Physical(worker[id].root_path))
              THEN <<[path |-> worker[id].root_path, is_dir |-> TRUE]>>
              ELSE <<>>]
    /\ UNCHANGED <<fs, scan_status, scan_receiver, sections, scan_count,
                   channel, sent, received>>
    /\ UNCHANGED <<resolve_vars, report_vars, first_scan, ui_vars,
                   extract_vars>>

\* The entries read_dir lists in a directory, in the order `order`.
ChildEntries(dir_path, order) ==
    [i \in 1..Len(order) |->
        [path |-> Append(dir_path, order[i]),
         is_dir |-> DirExists(fs, Physical(Append(dir_path, order[i])))]]

\* One entry of the walk: filter_entry(|e| !is_ignored(e)) drops an ignored
\* entry, and with it, for a directory, everything below; a directory that
\* passes is listed; a file that passes filter(is_file && !is_ignored) is
\* collected.
WalkStep(id) ==
    /\ worker[id].pc = "walk"
    /\ worker[id].stack # <<>>
    /\ LET e == Head(worker[id].stack)
           rest == Tail(worker[id].stack)
       IN IF IsIgnored(e)
          THEN worker' = [worker EXCEPT ![id].stack = rest]
          ELSE IF e.is_dir
          THEN \E order \in Orders(ChildNames(fs, Physical(e.path))) :
                  worker' = [worker EXCEPT
                      ![id].stack = ChildEntries(e.path, order) \o rest,
                      ![id].descended = @ \cup {e.path}]
          ELSE worker' = [worker EXCEPT
                      ![id].stack = rest,
                      ![id].walker_entries = Append(@, e)]
    /\ UNCHANGED <<fs, scan_status, scan_receiver, sections, scan_count,
                   channel, sent, received>>
    /\ UNCHANGED <<resolve_vars, report_vars, first_scan, ui_vars,
                   extract_vars>>

\* project_files_set: the cleaned path of every collected entry.
ProjectFilesSet(walker_entries) ==
    {Clean(walker_entries[i].path) : i \in 1..Len(walker_entries)}

\* The walk is over (collect() returns); the file set is built and the
\* extraction tasks are handed to the pool.
CollectProjectFiles(id) ==
    /\ worker[id].pc = "walk"
    /\ worker[id].stack = <<>>
    /\ worker' = [worker EXCEPT
          ![id].pc = "extract",
          ![id].project_files_set = ProjectFilesSet(worker[id].walker_entries),
          ![id].initial_results =
              [i \in 1..Len(worker[id].walker_entries) |-> None],
          ![id].outcomes =
              [i \in 1..Len(worker[id].walker_entries) |-> "pending"]]
    /\ UNCHANGED <<fs, scan_status, scan_receiver, sections, scan_count,
                   channel, sent, received>>
    /\ UNCHANGED <<resolve_vars, report_vars, first_scan, ui_vars,
                   extract_vars>>

\* One task of the first par_iter: analyze_file_content of one entry.  The
\* read and the parse succeed or fail as the environment `env` decides;
\* outcomes is history, what the environment did to each task.
ExtractFile(id, i, env) ==
    /\ worker[id].pc = "extract"
    /\ worker[id].initial_results[i] = None
    /\ LET path == worker[id].walker_entries[i].path
           r == AnalyzeFileContent(path, env)
       IN worker' = [worker EXCEPT
             ![id].initial_results[i] =
                 Some([path |-> path, connections |-> r.connections,
                       definitions |-> r.definitions]),
             ![id].outcomes[i] = env]
    /\ UNCHANGED <<fs, scan_status, scan_receiver, sections, scan_count,
                   channel, sent, received>>
    /\ UNCHANGED <<resolve_vars, report_vars, first_scan, ui_vars,
                   extract_vars>>

\* (Variant: the results are taken without waiting for the tasks.)
SomeExtracted(w) == TRUE
\* collect() of the first par_iter returns when every task has finished.
AllExtracted(w) ==
    \A i \in 1..Len(w.initial_results) : w.initial_results[i] # None

\* collect() of the second par_iter returns when every task has finished.
AllResolved(w) == \A j \in 1..Len(w.resolved) : w.resolved[j] # None

\* The results present in a vector of task results.
Present(results) ==
    LET done == SelectSeq(results, LAMBDA r : r # None)
    IN [k \in 1..Len(done) |-> Unwrap(done[k])]

RECURSIVE Flatten(_)
Flatten(seqs) ==
    IF seqs = <<>> THEN <<>> ELSE Head(seqs) \o Flatten(Tail(seqs))

\* (Variant: files.push(path), the path as walked.)
UncleanedFiles(initial_results) ==
    [k \in 1..Len(Present(initial_results)) |->
        Present(initial_results)[k].path]
\* The loop over initial_results: files.push(path.clean()), ...
MergedFiles(initial_results) ==
    [k \in 1..Len(Present(initial_results)) |->
        Clean(Present(initial_results)[k].path)]

\* (Variant: only the connections of the first file are kept.)
FirstFileConnections(initial_results) ==
    IF Present(initial_results) = <<>> THEN <<>>
    ELSE Present(initial_results)[1].connections
\* ... raw_connections.extend(file_connections), ...
MergedConnections(initial_results) ==
    Flatten([k \in 1..Len(Present(initial_results)) |->
                Present(initial_results)[k].connections])

\* ... definitions.extend(file_definitions).
MergedDefinitions(initial_results) ==
    Flatten([k \in 1..Len(Present(initial_results)) |->
                Present(initial_results)[k].definitions])

MergeResults(id) ==
    /\ worker[id].pc = "extract"
    /\ AllExtracted(worker[id])
    /\ worker' = [worker EXCEPT
          ![id].pc = "resolve",
          ![id].files = MergedFiles(worker[id].initial_results),
          ![id].raw_connections =
              MergedConnections(worker[id].initial_results),
          ![id].definitions = MergedDefinitions(worker[id].initial_results),
          ![id].resolved =
              [j \in 1..Len(MergedConnections(worker[id].initial_results))
                  |-> None]]
    /\ UNCHANGED <<fs, scan_status, scan_receiver, sections, scan_count,
                   channel, sent, received>>
    /\ UNCHANGED <<resolve_vars, report_vars, first_scan, ui_vars,
                   extract_vars>>

\* One task of the second par_iter: the closure of lines 398-405.
ResolveConnection(id, j) ==
    /\ worker[id].pc = "resolve"
    /\ worker[id].resolved[j] = None
    /\ LET conn == worker[id].raw_connections[j]
       IN worker' = [worker EXCEPT
             ![id].resolved[j] =
                 Some([source_file |-> Clean(conn.source_file),
                       imported_string |-> conn.imported_string,
                       resolved_target |->
                           ResolveImportPath(conn.source_file,
                                             conn.imported_string,
                                             worker[id].project_files_set)])]
    /\ UNCHANGED <<fs, scan_status, scan_receiver, sections, scan_count,
                   channel, sent, received>>
    /\ UNCHANGED <<resolve_vars, report_vars, first_scan, ui_vars,
                   extract_vars>>

\* (Variant: only the connections that were resolved are collected.)
ResolvedOnly(resolved) ==
    SelectSeq(Present(resolved), LAMBDA c : c.resolved_target # None)
\* resolved_connections: collect() of the second par_iter, one element per
\* raw connection, in the order of raw_connections.
ResolvedConnections(resolved) == Present(resolved)

\* The value the worker sends: Ok((root_path, files, resolved_connections,
\* definitions)) with files sorted.  scan, entries, outcomes and detected are
\* history: the call the value comes from, the paths the walk collected,
\* what the environment did to the analysis of each of them and the raw
\* connections that were handed to the resolution.
ScanResult(id, w) ==
    [ok |-> TRUE,
     root_path |-> w.root_path,
     files |-> SortPaths(w.files),
     connections |-> ResolvedConnections(w.resolved),
     definitions |-> w.definitions,
     detected |-> w.raw_connections,
     scan |-> id,
     entries |-> [i \in 1..Len(w.walker_entries) |-> w.walker_entries[i].path],
     outcomes |-> w.outcomes]

\* (Variant: the closure returns without sending its result.)
ReturnsWithoutSending(id) ==
    /\ worker[id].pc = "resolve"
    /\ AllResolved(worker[id])
    /\ worker' = [worker EXCEPT ![id] = NoWorker("done")]
    /\ UNCHANGED <<fs, scan_status, scan_receiver, sections, scan_count,
                   channel, sent, received>>
    /\ UNCHANGED <<resolve_vars, report_vars, first_scan, ui_vars,
                   extract_vars>>
\* files.sort(); tx.send(result).ok(); the closure returns.
SendResult(id) ==
    /\ worker[id].pc = "resolve"
    /\ AllResolved(worker[id])
    /\ channel' = [channel EXCEPT
          ![worker[id].tx].queue =
              IF channel[worker[id].tx].rx_dropped THEN @
              ELSE Append(@, ScanResult(id, worker[id]))]
    /\ sent' = [sent EXCEPT ![id] = @ + 1]
    /\ worker' = [worker EXCEPT ![id] = NoWorker("done")]
    /\ UNCHANGED <<fs, scan_status, scan_receiver, sections, scan_count,
                   received>>
    /\ UNCHANGED <<resolve_vars, report_vars, first_scan, ui_vars,
                   extract_vars>>

\* ---------------------------------------------- reporting.rs: the sections
\* The literal texts of the sections, as code points.
\* "├── "
TEE ==
    <<9500, 9472, 9472, 32>>
\* "└── "
CORNER ==
    <<9492, 9472, 9472, 32>>
\* "│   "
BAR ==
    <<9474, 32, 32, 32>>
\* "    "
BLANK ==
    <<32, 32, 32, 32>>
\* "```\n"
FENCE ==
    <<96, 96, 96, 10>>
\* "```\n\n"
FENCE_END ==
    <<96, 96, 96, 10, 10>>
\* "## Project Structure\n\n```"
STRUCTURE_HEADER ==
    <<35, 35, 32, 80, 114, 111, 106, 101, 99, 116, 32, 83, 116, 114, 117, 99,
      116, 117, 114, 101, 10, 10, 96, 96, 96>>
\* "## Detected Connections (Resolved)\n\n```"
CONNECTIONS_HEADER ==
    <<35, 35, 32, 68, 101, 116, 101, 99, 116, 101, 100, 32, 67, 111, 110,
      110, 101, 99, 116, 105, 111, 110, 115, 32, 40, 82, 101, 115, 111, 108,
      118, 101, 100, 41, 10, 10, 96, 96, 96>>
\* "_No connections detected._"
NO_CONNECTIONS ==
    <<95, 78, 111, 32, 99, 111, 110, 110, 101, 99, 116, 105, 111, 110, 115,
      32, 100, 101, 116, 101, 99, 116, 101, 100, 46, 95>>
\* " -> "
ARROW ==
    <<32, 45, 62, 32>>
\* " (External or Unresolved)"
EXTERNAL_OR_UNRESOLVED ==
    <<32, 40, 69, 120, 116, 101, 114, 110, 97, 108, 32, 111, 114, 32, 85,
      110, 114, 101, 115, 111, 108, 118, 101, 100, 41>>
\* "## Detected Definitions & Exports\n\n"
DEFINITIONS_HEADER ==
    <<35, 35, 32, 68, 101, 116, 101, 99, 116, 101, 100, 32, 68, 101, 102,
      105, 110, 105, 116, 105, 111, 110, 115, 32, 38, 32, 69, 120, 112, 111,
      114, 116, 115, 10, 10>>
\* "_No definitions or exports detected._\n"
NO_DEFINITIONS ==
    <<95, 78, 111, 32, 100, 101, 102, 105, 110, 105, 116, 105, 111, 110, 115,
      32, 111, 114, 32, 101, 120, 112, 111, 114, 116, 115, 32, 100, 101, 116,
      101, 99, 116, 101, 100, 46, 95, 10>>
\* "## Inverse Usage (Who Imports What)\n\n"
INVERSE_HEADER ==
    <<35, 35, 32, 73, 110, 118, 101, 114, 115, 101, 32, 85, 115, 97, 103,
      101, 32, 40, 87, 104, 111, 32, 73, 109, 112, 111, 114, 116, 115, 32,
      87, 104, 97, 116, 41, 10, 10>>
\* "_No resolved local imports found to build inverse usage._\n"
NO_INVERSE ==
    <<95, 78, 111, 32, 114, 101, 115, 111, 108, 118, 101, 100, 32, 108, 111,
      99, 97, 108, 32, 105, 109, 112, 111, 114, 116, 115, 32, 102, 111, 117,
      110, 100, 32, 116, 111, 32, 98, 117, 105, 108, 100, 32, 105, 110, 118,
      101, 114, 115, 101, 32, 117, 115, 97, 103, 101, 46, 95, 10>>

\* ReportItem::PlainText(text) and ReportItem::FilePath { display, path }
PlainText(text) == [tag |-> "PlainText", display |-> text, path |-> <<>>]
FilePath(display, path) ==
    [tag |-> "FilePath", display |-> display, path |-> path]

\* Path::strip_prefix: the components after those of base, when the path
\* starts with them.
StripPrefix(path, base) ==
    IF Len(base) <= Len(path) /\ SubSeq(path, 1, Len(base)) = base
    THEN Some(SubSeq(path, Len(base) + 1, Len(path)))
    ELSE None

\* path.strip_prefix(root_path).unwrap_or(path).display()
DisplayPath(root_path, path) ==
    IF StripPrefix(path, root_path) = None THEN PathText(path)
    ELSE PathText(Unwrap(StripPrefix(path, root_path)))

\* sort_by / sort_by_key / sort of a vector: a stable sort.
StableSort(v, Less(_, _)) ==
    LET Position(i) ==
            Cardinality({j \in 1..Len(v) :
                \/ Less(v[j], v[i])
                \/ (~Less(v[i], v[j]) /\ j < i)}) + 1
    IN [k \in 1..Len(v) |-> v[CHOOSE i \in 1..Len(v) : Position(i) = k]]

\* keys().cloned().collect() followed by sort(): the keys of a map in
\* ascending path order.
SortedKeys(keys) ==
    [k \in 1..Cardinality(keys) |->
        CHOOSE p \in keys :
            Cardinality({q \in keys : PathLess(q, p)}) = k - 1]

\* The inner loop of generate_tree_structure_items over the components of
\* one relative path, from the i-th on.  acc holds items and printed_dirs.
RECURSIVE ComponentItems(_, _, _, _, _, _)
ComponentItems(root_path, file_path, components, i, current_prefix, acc) ==
    IF i > Len(components) THEN acc
    ELSE LET component_path == Join(root_path, SubSeq(components, 1, i))
             name == NameText(components[i])
         IN IF i # Len(components)
            THEN IF component_path \in acc.printed_dirs
                 THEN ComponentItems(root_path, file_path, components, i + 1,
                                     current_prefix \o BAR, acc)
                 ELSE ComponentItems(root_path, file_path, components, i + 1,
                          current_prefix \o BAR,
                          [items |-> Append(acc.items,
                               FilePath(current_prefix \o TEE \o name
                                            \o <<47>>, component_path)),
                           printed_dirs |->
                               acc.printed_dirs \cup {component_path}])
            ELSE [items |-> Append(acc.items,
                      FilePath(current_prefix \o CORNER \o name, file_path)),
                  printed_dirs |-> acc.printed_dirs]

\* The body of the loop for one file: a path that is not below root_path is
\* skipped; a file directly in the root gets one item without prefix.
FileItems(root_path, file_path, acc) ==
    IF StripPrefix(file_path, root_path) = None THEN acc
    ELSE LET components == Unwrap(StripPrefix(file_path, root_path))
         IN IF Len(components) <= 1
            THEN IF FileName(components) = None THEN acc
                 ELSE [items |-> Append(acc.items,
                           FilePath(TEE \o NameText(Unwrap(FileName(components))),
                                    file_path)),
                       printed_dirs |-> acc.printed_dirs]
            ELSE ComponentItems(root_path, file_path, components, 1, <<>>,
                                acc)

RECURSIVE TreeItemsFrom(_, _, _, _)
TreeItemsFrom(root_path, sorted_files, k, acc) ==
    IF k > Len(sorted_files) THEN acc
    ELSE TreeItemsFrom(root_path, sorted_files, k + 1,
                       FileItems(root_path, sorted_files[k], acc))

\* (Variant: printed_dirs is empty again at each file.)
TreeItemsFileByFile(root_path, files) ==
    Flatten([k \in 1..Len(files) |->
        FileItems(root_path, SortNaturally(files)[k],
                  [items |-> <<>>, printed_dirs |-> {}]).items])
generate_tree_structure_items(root_path, files) ==
    TreeItemsFrom(root_path, SortNaturally(files), 1,
                  [items |-> <<>>, printed_dirs |-> {}]).items

generate_structure_section(root_path, files) ==
    <<PlainText(STRUCTURE_HEADER),
      PlainText(IF FileName(root_path) = None THEN <<>>
                ELSE NameText(Unwrap(FileName(root_path))))>>
    \o generate_tree_structure_items(root_path, files)
    \o <<PlainText(FENCE)>>

\* The items of one import of generate_connections_section.
ImportItems(root_path, conn, base_indent, import_prefix) ==
    <<PlainText(base_indent \o import_prefix
                    \o ImportText(conn.imported_string))>>
    \o (IF conn.resolved_target # None
        THEN <<PlainText(ARROW),
               FilePath(DisplayPath(root_path, Unwrap(conn.resolved_target)),
                        Unwrap(conn.resolved_target))>>
        ELSE <<PlainText(EXTERNAL_OR_UNRESOLVED)>>)

\* (Variant: the imports of a file are listed in the order detected.)
ImportsAsDetected(connections, file_path) ==
    SelectSeq(connections, LAMBDA c : c.source_file = file_path)
\* grouped_connections[file_path] after imports.sort_by(imported_string).
SortedImports(connections, file_path) ==
    StableSort(SelectSeq(connections, LAMBDA c : c.source_file = file_path),
               LAMBDA a, b : TextLess(ImportText(a.imported_string),
                                      ImportText(b.imported_string)))

generate_connections_section(root_path, connections) ==
    IF connections = <<>>
    THEN <<PlainText(CONNECTIONS_HEADER), PlainText(NO_CONNECTIONS),
           PlainText(FENCE)>>
    ELSE LET sorted_files ==
                 SortedKeys({connections[k].source_file :
                                k \in 1..Len(connections)})
             num_files == Len(sorted_files)
             OfFile(i) ==
                 LET imports == SortedImports(connections, sorted_files[i])
                 IN <<FilePath((IF i = num_files THEN CORNER ELSE TEE)
                                   \o DisplayPath(root_path, sorted_files[i]),
                               sorted_files[i])>>
                    \o Flatten([j \in 1..Len(imports) |->
                           ImportItems(root_path, imports[j],
                               IF i = num_files THEN BLANK ELSE BAR,
                               IF j = Len(imports) THEN CORNER ELSE TEE)])
         IN <<PlainText(CONNECTIONS_HEADER)>>
            \o Flatten([i \in 1..num_files |-> OfFile(i)])
            \o <<PlainText(FENCE)>>

\* usize::to_string
RECURSIVE Decimal(_)
Decimal(n) ==
    IF n < 10 THEN <<48 + n>> ELSE Append(Decimal(n \div 10), 48 + (n % 10))

\* format!("{:<width$}", text): padded with spaces on the right.
RECURSIVE PadRight(_, _)
PadRight(text, width) ==
    IF Len(text) >= width THEN text ELSE PadRight(Append(text, 32), width)

SeqMax(v) == CHOOSE m \in {v[k] : k \in 1..Len(v)} :
                 \A k \in 1..Len(v) : v[k] <= m

\* (Variant: the kind is not padded.)
UnpaddedLine(def, line_width, kind_width) ==
    <<76>> \o PadRight(Decimal(def.line_number), line_width) \o <<32>>
    \o Chars(def.kind) \o <<32>> \o Chars(def.symbol_name) \o <<10>>
\* format!("L{:<line_width$} {:<kind_width$} {}\n", line_number, kind,
\* symbol_name)
DefinitionLine(def, line_width, kind_width) ==
    <<76>> \o PadRight(Decimal(def.line_number), line_width) \o <<32>>
    \o PadRight(Chars(def.kind), kind_width) \o <<32>>
    \o Chars(def.symbol_name) \o <<10>>

generate_definitions_section(root_path, definitions) ==
    IF definitions = <<>>
    THEN <<PlainText(DEFINITIONS_HEADER), PlainText(NO_DEFINITIONS)>>
    ELSE LET sorted_files ==
                 SortedKeys({definitions[k].source_file :
                                k \in 1..Len(definitions)})
             OfFile(i) ==
                 LET defs_in_file ==
                         StableSort(
                             SelectSeq(definitions, LAMBDA d :
                                 d.source_file = sorted_files[i]),
                             LAMBDA a, b : a.line_number < b.line_number)
                     max_line_num ==
                         defs_in_file[Len(defs_in_file)].line_number
                     line_width == IF max_line_num = 0 THEN 1
                                   ELSE Len(Decimal(max_line_num))
                     max_kind_len ==
                         SeqMax([k \in 1..Len(defs_in_file) |->
                                    Len(Chars(defs_in_file[k].kind))])
                 IN <<PlainText(<<35, 35, 35, 32, 96>>
                                    \o DisplayPath(root_path, sorted_files[i])
                                    \o <<96, 10>>),
                      PlainText(FENCE)>>
                    \o [k \in 1..Len(defs_in_file) |->
                           PlainText(DefinitionLine(defs_in_file[k],
                                         line_width, max_kind_len))]
                    \o <<PlainText(FENCE_END)>>
         IN <<PlainText(DEFINITIONS_HEADER)>>
            \o Flatten([i \in 1..Len(sorted_files) |-> OfFile(i)])

\* (Variant: the sources of a target are listed in the order detected.)
SourcesAsDetected(connections, target_file) ==
    LET of_target == SelectSeq(connections, LAMBDA c :
                         c.resolved_target = Some(target_file))
    IN [k \in 1..Len(of_target) |-> of_target[k].source_file]
\* inverse_map[target_file] after source_files.sort().
SortedSources(connections, target_file) ==
    LET of_target == SelectSeq(connections, LAMBDA c :
                         c.resolved_target = Some(target_file))
    IN StableSort([k \in 1..Len(of_target) |-> of_target[k].source_file],
                  PathLess)

generate_inverse_usage_section(root_path, connections) ==
    LET targets == UNION {connections[k].resolved_target :
                             k \in 1..Len(connections)}
        sorted_target_files == SortedKeys(targets)
        num_targets == Len(sorted_target_files)
        OfTarget(i) ==
            LET source_files ==
                    SortedSources(connections, sorted_target_files[i])
            IN <<FilePath((IF i = num_targets THEN CORNER ELSE TEE)
                              \o DisplayPath(root_path,
                                             sorted_target_files[i]),
                          sorted_target_files[i])>>
               \o [j \in 1..Len(source_files) |->
                      FilePath((IF i = num_targets THEN BLANK ELSE BAR)
                                   \o (IF j = Len(source_files)
                                       THEN CORNER ELSE TEE)
                                   \o DisplayPath(root_path, source_files[j]),
                               source_files[j])]
    IN IF targets = {}
       THEN <<PlainText(INVERSE_HEADER), PlainText(NO_INVERSE)>>
       ELSE <<PlainText(INVERSE_HEADER), PlainText(FENCE)>>
            \o Flatten([i \in 1..num_targets |-> OfTarget(i)])
            \o <<PlainText(FENCE)>>

\* ---------------------------------------------------------- the UI update
\* (Variant: one channel shared by all calls.)
SharedChannel(n) == 1
\* mpsc::channel() of the n-th start_analysis call.
NewChannel(n) == n

\* rx.try_recv() yields a value.
CanReceive(receiver) ==
    receiver # None /\ channel[Unwrap(receiver)].queue # <<>>

\* scan_status after a received result (lines 136-145).
StatusOf(result) ==
    IF result.ok
    THEN [tag |-> "Completed", root_path |-> result.root_path,
          files |-> result.files, connections |-> result.connections,
          definitions |-> result.definitions,
          detected |-> result.detected, scan |-> result.scan,
          entries |-> result.entries, outcomes |-> result.outcomes]
    ELSE [tag |-> "Error", message |-> result.message]

\* (Variant: the receiver is kept after a value was received.)
KeepReceiver(receiver) == receiver
\* scan_receiver after the poll: dropped once a value was received.
ReceiverAfterPoll(receiver) ==
    IF CanReceive(receiver) THEN None ELSE receiver

\* (Variant: the button is enabled in every status.)
ButtonAlwaysEnabled(status) == TRUE
\* !matches!(self.scan_status, ScanStatus::Scanning)
AnalysisButtonEnabled(status) == status.tag # "Scanning"

\* lines 158-163: a scan is started when the enabled button is clicked and
\* the folder picker returns a folder.
Starts(status, clicked, picked) ==
    clicked /\ AnalysisButtonEnabled(status) /\ picked # None

\* (Variant: a dismissed folder picker puts the status back to Idle.)
IdleOnDismiss(status, clicked, picked) ==
    IF Starts(status, clicked, picked) THEN [tag |-> "Scanning"]
    ELSE IF clicked /\ AnalysisButtonEnabled(status) THEN [tag |-> "Idle"]
    ELSE status
\* line 160: scan_status after the button.
StatusAfterButton(status, clicked, picked) ==
    IF Starts(status, clicked, picked) THEN [tag |-> "Scanning"] ELSE status

\* (Variant: the sections are cleared before the folder picker is asked.)
ClearedOnClick(secs, status, clicked, picked) ==
    IF clicked /\ AnalysisButtonEnabled(status)
    THEN clear_generated_sections(secs) ELSE secs
\* line 161: the sections after the button.
SectionsAfterButton(secs, status, clicked, picked) ==
    IF Starts(status, clicked, picked)
    THEN clear_generated_sections(secs) ELSE secs

\* (Variant: rx.recv(), which returns once a value is in the channel.)
BlockingRecv(receiver) == CanReceive(receiver)
\* rx.try_recv() returns at once, with a value or without.
TryRecvReturns(receiver) == TRUE

\* str::to_lowercase of ASCII text
Lower(text) ==
    [k \in 1..Len(text) |->
        IF text[k] >= 65 /\ text[k] <= 90 THEN text[k] + 32 ELSE text[k]]

\* str::contains
Contains(text, pattern) ==
    \E k \in 0..(Len(text) - Len(pattern)) :
        SubSeq(text, k + 1, k + Len(pattern)) = pattern

\* path.strip_prefix(root_path).unwrap_or(path).to_string_lossy()
\*     .to_lowercase().contains(&filter_lower)
PathMatches(root_path, path, filter) ==
    Contains(Lower(DisplayPath(root_path, path)), Lower(filter))

\* The elements of a vector that pass a test, in their order.
Filtered(v, Test(_)) == SelectSeq(v, Test)

\* lines 267-275: the files the structure section is generated from.
filtered_files(status, filter) ==
    Filtered(status.files, LAMBDA path :
        filter = <<>> \/ PathMatches(status.root_path, path, filter))

\* lines 279-293 and 314-328: the connections the connections section and
\* the inverse-usage section are generated from.
filtered_connections(status, filter, with_import) ==
    Filtered(status.connections, LAMBDA conn :
        \/ filter = <<>>
        \/ PathMatches(status.root_path, conn.source_file, filter)
        \/ /\ with_import
           /\ Contains(Lower(ImportText(conn.imported_string)),
                       Lower(filter))
        \/ /\ conn.resolved_target # None
           /\ PathMatches(status.root_path, Unwrap(conn.resolved_target),
                          filter))

\* lines 297-309: the definitions the definitions section is generated
\* from.
filtered_definitions(status, filter) ==
    Filtered(status.definitions, LAMBDA def :
        \/ filter = <<>>
        \/ PathMatches(status.root_path, def.source_file, filter)
        \/ Contains(Lower(Chars(def.symbol_name)), Lower(filter))
        \/ Contains(Lower(Chars(def.kind)), Lower(filter)))

\* A generated section: its items and, as history, the scan whose result
\* it was generated from.
Section(items, status) == Some([items |-> items, scan |-> status.scan])

\* generate_file_content_section lists the files in ascending path order;
\* the text it reads from each file is not modelled.
FileContentSection(status, include) ==
    IF include THEN Section(SortPaths(status.files), status) ELSE None

\* lines 263-336: the sections generated from a Completed status.
GeneratedSections(status, f, include) ==
    [structure |->
         Section(generate_structure_section(
                     status.root_path, filtered_files(status, f.structure)),
                 status),
     connections |->
         Section(generate_connections_section(
                     status.root_path,
                     filtered_connections(status, f.connections, TRUE)),
                 status),
     definitions |->
         Section(generate_definitions_section(
                     status.root_path,
                     filtered_definitions(status, f.definitions)),
                 status),
     inverse_usage |->
         Section(generate_inverse_usage_section(
                     status.root_path,
                     filtered_connections(status, f.inverse_usage, FALSE)),
                 status),
     file_content |-> FileContentSection(status, include)]

\* The four filter fields after a frame in which the user edits one of
\* them (the text box that has the focus) or none.
AfterEdit(f, edit) ==
    IF edit = None THEN f
    ELSE [f EXCEPT ![Unwrap(edit).field] = Unwrap(edit).text]

\* One call of MyApp::update.  `clicked` says whether the user clicks the
\* analysis button in this frame, `picked` what the folder picker then
\* returns, `toggled` whether the user clicks the file-content checkbox and
\* `edit` what the user types into a filter box.  The visibility flags,
\* the clipboard and the file window, which no code modelled here reads,
\* are left out.
Update(clicked, picked, toggled, edit) ==
    LET got == CanReceive(scan_receiver)
        result == Head(channel[Unwrap(scan_receiver)].queue)
        \* lines 134-150: the poll
        status1 == IF got THEN StatusOf(result) ELSE scan_status
        sections1 == IF got /\ ~result.ok
                     THEN clear_generated_sections(sections) ELSE sections
        receiver1 == ReceiverAfterPoll(scan_receiver)
        trigger_section_generation == got /\ result.ok
        \* lines 156-164: the button
        start == Starts(status1, clicked, picked)
        id == scan_count + 1
        status2 == StatusAfterButton(status1, clicked, picked)
        sections2 == SectionsAfterButton(sections1, status1, clicked, picked)
        receiver2 == IF start THEN Some(NewChannel(id)) ELSE receiver1
        dropped == (IF got /\ receiver1 = None THEN scan_receiver ELSE {})
                   \cup (IF start THEN receiver1 ELSE {})
        \* lines 168-172: the checkbox
        is_completed == status2.tag = "Completed"
        checkbox_changed == toggled /\ is_completed
        include == IF checkbox_changed THEN ~include_file_content
                   ELSE include_file_content
        trigger_content_generation_only == checkbox_changed
        \* lines 235-245: the filter boxes
        filters1 == AfterEdit(filters, edit)
        \* lines 257-261
        regenerate ==
            \/ trigger_section_generation
            \/ /\ is_completed
               /\ \E field \in DOMAIN filters1 : Len(filters1[field]) > 0
    IN /\ scan_receiver # None => TryRecvReturns(scan_receiver)
       /\ start => scan_count < MaxScans
       /\ scan_status' = status2
       /\ scan_receiver' = receiver2
       \* line 148
       /\ repaint_requested' = (scan_receiver # None /\ ~got)
       /\ include_file_content' = include
       /\ filters' = filters1
       \* lines 257-343: the sections are generated
       /\ sections' =
             IF regenerate
             THEN IF is_completed
                  THEN GeneratedSections(status2, filters1, include)
                  ELSE sections2
             ELSE IF trigger_content_generation_only
             THEN [sections2 EXCEPT
                      !.file_content = FileContentSection(status2, include)]
             ELSE sections2
       /\ channel' = [c \in Scans |->
             [queue |-> IF got /\ c = Unwrap(scan_receiver)
                        THEN Tail(channel[c].queue) ELSE channel[c].queue,
              rx_dropped |-> channel[c].rx_dropped \/ c \in dropped]]
       /\ received' = IF got
                      THEN [received EXCEPT ![Unwrap(scan_receiver)] = @ + 1]
                      ELSE received
       /\ scan_count' = IF start THEN id ELSE scan_count
       /\ worker' = IF start
                    THEN [worker EXCEPT
                             ![id] = [NoWorker("start") EXCEPT
                                         !.root_path = Unwrap(picked),
                                         !.tx = NewChannel(id)]]
                    ELSE worker
       /\ UNCHANGED <<fs, sent>>
       /\ UNCHANGED <<resolve_vars, report_vars, extract_vars>>

\* What the folder picker may return: nothing (the dialog was dismissed) or
\* a folder.
Picks == {None} \cup {Some(r) : r \in Roots}

Next ==
    \/ \E clicked \in BOOLEAN, picked \in Picks :
          Update(clicked, picked, FALSE, None) /\ UNCHANGED first_scan
    \/ \E id \in Scans : WalkRoot(id)
    \/ \E id \in Scans : WalkStep(id)
    \/ \E id \in Scans : CollectProjectFiles(id)
    \/ \E id \in Scans : \E i \in 1..Len(worker[id].initial_results) :
          \E env \in Environments : ExtractFile(id, i, env)
    \/ \E id \in Scans : MergeResults(id)
    \/ \E id \in Scans : \E j \in 1..Len(worker[id].resolved) :
          ResolveConnection(id, j)
    \/ \E id \in Scans : SendResult(id)

Init ==
    /\ ScanInit
    /\ rq = [source_file |-> <<>>, import_str |-> <<>>, project_files |-> {}]
    /\ ra = [done |-> TRUE, result |-> None]

Spec == Init /\ [][Next]_vars

\* ------------------------------------------------- the same folder again
\* The user scans one folder and then the same folder again, and the
\* environment treats each file at every scan as it did at the first.
\* first_scan records the folder of the first scan and, once its result was
\* received, what the environment did to each file and the result as sets.
SetView(r) ==
    [files |-> {r.files[i] : i \in 1..Len(r.files)},
     connections |-> {r.connections[i] : i \in 1..Len(r.connections)},
     definitions |-> {r.definitions[i] : i \in 1..Len(r.definitions)},
     outcomes |-> {<<r.entries[i], r.outcomes[i]>> : i \in 1..Len(r.entries)}]

RecordFirstScan ==
    first_scan' =
        [root_path |->
             IF first_scan.root_path = None /\ scan_count' = 1
             THEN Some(worker'[1].root_path) ELSE first_scan.root_path,
         result |->
             IF first_scan.result = None /\ scan_status'.tag = "Completed"
             THEN Some(SetView(scan_status')) ELSE first_scan.result]

\* The folder picker returns the folder of the first scan.
PicksAgain ==
    IF first_scan.root_path = None THEN Picks
    ELSE {None, first_scan.root_path}

\* What the environment does to the i-th extraction task of a scan.
EnvironmentsAgain(id, i) ==
    LET path == worker[id].walker_entries[i].path
        known == IF first_scan.result = None THEN {}
                 ELSE {env \in Environments :
                          <<path, env>> \in Unwrap(first_scan.result).outcomes}
    IN IF known = {} THEN Environments ELSE known

NextRescan ==
    \/ \E clicked \in BOOLEAN, picked \in PicksAgain :
          Update(clicked, picked, FALSE, None) /\ RecordFirstScan
    \/ \E id \in Scans : WalkRoot(id)
    \/ \E id \in Scans : WalkStep(id)
    \/ \E id \in Scans : CollectProjectFiles(id)
    \/ \E id \in Scans : \E i \in 1..Len(worker[id].initial_results) :
          \E env \in EnvironmentsAgain(id, i) : ExtractFile(id, i, env)
    \/ \E id \in Scans : MergeResults(id)
    \/ \E id \in Scans : \E j \in 1..Len(worker[id].resolved) :
          ResolveConnection(id, j)
    \/ \E id \in Scans : SendResult(id)

SpecRescan == Init /\ [][NextRescan]_vars

\* ------------------------------------------- the filters and the checkbox
\* The user also types into the filter boxes and clicks the file-content
\* checkbox, on one project: a.js, which imports ./b and lodash, and b.js.
UiProject == {FileA, FileB}

\* What the user may type into a filter box: nothing, or 'B'.
FilterTexts == {<<>>, <<66>>}

\* The edit of a frame: none, or a new text in one of the filter boxes.
Edits ==
    {None} \cup {Some(e) : e \in [field : DOMAIN NoFilters,
                                  text : FilterTexts]}

\* What the user does in one frame: nothing, or one thing: a click on the
\* analysis button (and a choice in the folder picker), a click on the
\* checkbox, or an edit of the filter box that has the focus.
Frames ==
    [clicked : {TRUE}, picked : Picks, toggled : {FALSE}, edit : {None}]
    \cup [clicked : {FALSE}, picked : {None}, toggled : BOOLEAN,
          edit : {None}]
    \cup [clicked : {FALSE}, picked : {None}, toggled : {FALSE},
          edit : Edits]

InitUI == Init /\ fs = UiProject

NextUI ==
    \/ \E frame \in Frames :
          /\ Update(frame.clicked, frame.picked, frame.toggled, frame.edit)
          /\ UNCHANGED first_scan
    \/ \E id \in Scans : WalkRoot(id)
    \/ \E id \in Scans : WalkStep(id)
    \/ \E id \in Scans : CollectProjectFiles(id)
    \/ \E id \in Scans : \E i \in 1..Len(worker[id].initial_results) :
          \E env \in Environments : ExtractFile(id, i, env)
    \/ \E id \in Scans : MergeResults(id)
    \/ \E id \in Scans : \E j \in 1..Len(worker[id].resolved) :
          ResolveConnection(id, j)
    \/ \E id \in Scans : SendResult(id)

SpecUI == InitUI /\ [][NextUI]_vars

\* ------------------------------------------- calls of resolve_import_path
\* Specifiers handed to resolve_import_path.
Specifiers ==
    { <<CurDir, N("b")>>,                 \* ./b
      <<CurDir, NE("b", "js")>>,          \* ./b.js
      <<CurDir, N("util")>>,              \* ./util
      <<CurDir, NE("foo", "bar"), <<"">>>>, \* ./foo.bar/
      <<CurDir, NE("foo", "bar")>>,       \* ./foo.bar
      <<CurDir>>,                         \* .
      <<ParentDir>>,                      \* ..
      <<ParentDir, N("b")>>,              \* ../b
      <<CurDir, N("c:")>>,                \* ./c:
      <<N("c:"), N("b")>>,                \* c:/b
      <<N("b")>>,                         \* b
      <<NE("b", "js")>>,                  \* b.js
      <<<<"">>, N("proj"), NE("b", "js")>> \* /proj/b.js
    }

SourceFiles ==
    { <<RootDir, N("proj"), NE("a", "js")>>,
      <<RootDir, N("proj"), NE("v1", "2"), NE("a", "js")>>,
      <<CurDir, N("proj"), NE("a", "js")>> }

ResolveUniverse ==
    { <<RootDir, N("proj"), N("b")>>,
      <<RootDir, N("proj"), NE("b", "js")>>,
      <<RootDir, N("proj"), NE("b", "ts")>>,
      <<RootDir, N("proj"), N("b"), NE("index", "js")>>,
      <<RootDir, N("proj"), N("util"), NE("index", "ts")>>,
      <<RootDir, N("proj"), NE("foo", "js")>>,
      <<RootDir, N("proj"), <<"foo", "bar", "js">>>>,
      <<RootDir, N("proj"), NE("foo", "bar"), NE("index", "js")>>,
      <<RootDir, N("proj"), NE("v1", "js")>>,
      <<RootDir, N("proj"), <<"v1", "2", "js">>>>,
      <<RootDir, N("proj"), NE("v1", "2"), NE("index", "js")>>,
      <<RootDir, N("proj"), N("c:")>>,
      <<RootDir, N("proj"), N("c:"), N("b")>>,
      <<N("proj"), NE("b", "js")>> }

ResolveInit ==
    /\ rq \in [source_file : SourceFiles, import_str : Specifiers,
               project_files : {F \in SUBSET ResolveUniverse :
                                    Cardinality(F) <= MaxSetSize}]
    /\ ra = [done |-> FALSE, result |-> None]
    /\ fs = {}
    /\ scan_status = [tag |-> "Idle"]
    /\ scan_receiver = None
    /\ UiInit
    /\ scan_count = 0
    /\ worker = [id \in Scans |-> NoWorker("idle")]
    /\ channel = [id \in Scans |-> [queue |-> <<>>, rx_dropped |-> FALSE]]
    /\ sent = [id \in Scans |-> 0]
    /\ received = [id \in Scans |-> 0]
    /\ first_scan = [root_path |-> None, result |-> None]
    /\ report_in = NoReport
    /\ report_out = None
    /\ ex_in = NoExtract
    /\ ex_out = None

\* One call of resolve_import_path.
Resolve ==
    /\ ~ra.done
    /\ ra' = [done |-> TRUE,
              result |-> ResolveImportPath(rq.source_file, rq.import_str,
                                           rq.project_files)]
    /\ UNCHANGED rq
    /\ UNCHANGED scan_vars
    /\ UNCHANGED report_vars

ResolveNext == Resolve

SpecResolve == ResolveInit /\ [][ResolveNext]_vars

\* ------------------------------------------ calls of the section generators
ReportRoots == {<<RootDir, N("proj")>>, <<RootDir, N("proj"), N("sub")>>}

ReportFiles ==
    { <<RootDir, N("proj"), N("file2")>>,
      <<RootDir, N("proj"), N("file10")>>,
      <<RootDir, N("proj"), N("f2")>>,
      <<RootDir, N("proj"), N("f99999999999999999999")>>,
      <<RootDir, N("proj"), N("01"), NE("a", "js")>>,
      <<RootDir, N("proj"), N("01"), NE("c", "js")>>,
      <<RootDir, N("proj"), N("1"), NE("b", "js")>>,
      <<RootDir, N("proj"), N("sub"), N("deep"), NE("x", "js")>> }

ReportA == <<RootDir, N("proj"), NE("a", "js")>>
ReportB == <<RootDir, N("proj"), NE("b", "js")>>
ReportC == <<RootDir, N("proj"), NE("c", "js")>>
ReportX == <<RootDir, N("proj"), N("sub"), N("deep"), NE("x", "js")>>

ReportConnections ==
    { [source_file |-> ReportA, imported_string |-> <<CurDir, N("b")>>,
       resolved_target |-> Some(ReportB)],
      [source_file |-> ReportC, imported_string |-> <<CurDir, N("b")>>,
       resolved_target |-> Some(ReportB)],
      [source_file |-> ReportA, imported_string |-> <<N("lodash")>>,
       resolved_target |-> None],
      [source_file |-> ReportA, imported_string |-> <<CurDir, N("c")>>,
       resolved_target |-> Some(ReportC)],
      [source_file |-> ReportC, imported_string |-> <<CurDir, N("a")>>,
       resolved_target |-> Some(ReportA)],
      [source_file |-> ReportX, imported_string |-> <<N("lodash")>>,
       resolved_target |-> None],
      [source_file |-> ReportA, imported_string |-> <<CurDir, NE("b", "js")>>,
       resolved_target |-> Some(ReportB)] }

ReportDefinitions ==
    { [source_file |-> ReportA, symbol_name |-> "f", kind |-> "Function",
       line_number |-> 1],
      [source_file |-> ReportA, symbol_name |-> "B", kind |-> "Class",
       line_number |-> 10],
      [source_file |-> ReportA, symbol_name |-> "g", kind |-> "Function",
       line_number |-> 10],
      [source_file |-> ReportA, symbol_name |-> "c", kind |-> "Variable",
       line_number |-> 2],
      [source_file |-> ReportB, symbol_name |-> "g", kind |-> "Function",
       line_number |-> 10],
      [source_file |-> ReportB, symbol_name |-> "B", kind |-> "Class",
       line_number |-> 2] }

\* The sequences of at most n members of a set.
SeqsUpTo(S, n) == UNION {[1..k -> S] : k \in 0..n}

\* The file lists a scan delivers: distinct paths in ascending order.
FileLists ==
    {SortedKeys(F) : F \in {G \in SUBSET ReportFiles :
                                Cardinality(G) <= MaxReportFiles}}

ReportInputs ==
    [fn : {"structure"}, root_path : ReportRoots, files : FileLists,
     connections : {<<>>}, definitions : {<<>>}]
    \cup [fn : {"connections", "inverse_usage"}, root_path : ReportRoots,
          files : {<<>>},
          connections : SeqsUpTo(ReportConnections, MaxConnections),
          definitions : {<<>>}]
    \cup [fn : {"definitions"}, root_path : ReportRoots, files : {<<>>},
          connections : {<<>>},
          definitions : SeqsUpTo(ReportDefinitions, MaxDefinitions)]

ReportInit ==
    /\ report_in \in ReportInputs
    /\ report_out = None
    /\ ex_in = NoExtract
    /\ ex_out = None
    /\ rq = [source_file |-> <<>>, import_str |-> <<>>, project_files |-> {}]
    /\ ra = [done |-> TRUE, result |-> None]
    /\ fs = {}
    /\ scan_status = [tag |-> "Idle"]
    /\ scan_receiver = None
    /\ UiInit
    /\ scan_count = 0
    /\ worker = [id \in Scans |-> NoWorker("idle")]
    /\ channel = [id \in Scans |-> [queue |-> <<>>, rx_dropped |-> FALSE]]
    /\ sent = [id \in Scans |-> 0]
    /\ received = [id \in Scans |-> 0]
    /\ first_scan = [root_path |-> None, result |-> None]

\* One call of each section generator.
GenerateStructureSection ==
    /\ report_in.fn = "structure"
    /\ report_out = None
    /\ report_out' = Some(generate_structure_section(report_in.root_path,
                                                     report_in.files))
    /\ UNCHANGED <<report_in, resolve_vars, scan_vars>>

GenerateConnectionsSection ==
    /\ report_in.fn = "connections"
    /\ report_out = None
    /\ report_out' = Some(generate_connections_section(
                              report_in.root_path, report_in.connections))
    /\ UNCHANGED <<report_in, resolve_vars, scan_vars>>

GenerateDefinitionsSection ==
    /\ report_in.fn = "definitions"
    /\ report_out = None
    /\ report_out' = Some(generate_definitions_section(
                              report_in.root_path, report_in.definitions))
    /\ UNCHANGED <<report_in, resolve_vars, scan_vars>>

GenerateInverseUsageSection ==
    /\ report_in.fn = "inverse_usage"
    /\ report_out = None
    /\ report_out' = Some(generate_inverse_usage_section(
                              report_in.root_path, report_in.connections))
    /\ UNCHANGED <<report_in, resolve_vars, scan_vars>>

ReportNext ==
    \/ GenerateStructureSection
    \/ GenerateConnectionsSection
    \/ GenerateDefinitionsSection
    \/ GenerateInverseUsageSection

SpecReport == ReportInit /\ [][ReportNext]_vars

\* ------------------------------------------------- claims on the resolver
\* base of the claims: the normalized join of the source file's directory
\* and the specifier.
BaseOf(source_file, import_str) ==
    Clean(Join(Unwrap(Parent(source_file)), Components(import_str)))

\* base with ".ext" appended to its text.
WithAppended(base, ext) ==
    IF FileName(base) = None THEN Append(base, <<"", ext>>)
    ELSE SubSeq(base, 1, Len(base) - 1) \o <<base[Len(base)] \o <<ext>>>>

\* The candidate order the specification fixes: base; base with each
\* extension appended, one equal to base's own extension skipped; then the
\* index files under base.
OrderedCandidates(base) ==
    <<base>>
    \o SelectSeq([i \in 1..6 |-> WithAppended(base, extensions[i + 1])],
                 LAMBDA c : Extension(base) = None
                            \/ Unwrap(Extension(base)) # c[Len(c)][Len(c[Len(c)])])
    \o [i \in 1..Len(index_files) |-> Append(base, index_files[i])]

\* C2: for an eligible specifier (starts with '.', holds no ':') the result
\* is the first member of the file set in the fixed order base, base.js,
\* base.jsx, base.ts, base.tsx, base.mjs, base.cjs, base/index.js ...
\* base/index.cjs, and None when none of them is in the set.
C2_FirstCandidateInFixedOrder ==
    (ra.done /\ Eligible(rq.import_str))
        => ra.result = FirstIn(OrderedCandidates(
                                   BaseOf(rq.source_file, rq.import_str)),
                               1, rq.project_files)

\* C3: a specifier that does not start with '.' or that holds a ':'
\* resolves to None, whatever the source file and the file set.
C3_IneligibleResolvesToNone ==
    (ra.done /\ (~StartsWithDot(rq.import_str)
                 \/ ContainsColon(rq.import_str)))
        => ra.result = None

\* C3's case: such a specifier was resolved against a set that holds the
\* file its text names.
C3_Witness ==
    /\ ra.done
    /\ rq.import_str = <<NE("b", "js")>>
    /\ rq.source_file = <<RootDir, N("proj"), NE("a", "js")>>
    /\ <<RootDir, N("proj"), NE("b", "js")>> \in rq.project_files

\* --------------------------------------------------- claims on the scans
Range(v) == {v[i] : i \in 1..Len(v)}

\* The scan results that were delivered: the values on the channels and the
\* one the caller holds.
View(r) ==
    [root_path |-> r.root_path, files |-> r.files,
     connections |-> r.connections, definitions |-> r.definitions,
     detected |-> r.detected, scan |-> r.scan, entries |-> r.entries,
     outcomes |-> r.outcomes]

SentValues ==
    UNION {Range(channel[c].queue) : c \in Scans}

Delivered ==
    {View(m) : m \in {v \in SentValues : v.ok}}
    \cup (IF scan_status.tag = "Completed" THEN {View(scan_status)} ELSE {})

\* C1: in every delivered scan result, each resolved_target that is not
\* None is an element of the files of the same result.
C1_ResolvedTargetInFiles ==
    \A r \in Delivered : \A k \in 1..Len(r.connections) :
        r.connections[k].resolved_target \subseteq Range(r.files)

\* C1's case: a delivered result holds a connection that was resolved.
C1_Witness ==
    \E r \in Delivered : \E k \in 1..Len(r.connections) :
        r.connections[k].resolved_target # None

\* A root that cannot be read: no directory of that path exists.
InvalidRoot(root_path) == ~DirExists(fs, Physical(root_path))

\* C4: a scan whose root path is invalid delivers an error value and no
\* ScanResult, and the caller's status becomes Error.
C4_InvalidRootDeliversError ==
    /\ \A m \in SentValues : InvalidRoot(m.root_path) => ~m.ok
    /\ scan_status.tag = "Completed" => ~InvalidRoot(scan_status.root_path)

\* C5: every started scan sends exactly one value (none before it ends, one
\* once it has ended), the caller receives at most one value from a channel,
\* and once it has received one the receiver is dropped: scan_receiver no
\* longer names that channel, so it is never polled again.
C5_OneShotDelivery ==
    \A id \in Scans :
        /\ sent[id] <= 1
        /\ worker[id].pc = "done" => sent[id] = 1
        /\ worker[id].pc \in {"idle", "start", "walk", "extract", "resolve"}
               => sent[id] = 0
        /\ received[id] <= 1
        /\ received[id] + Len(channel[id].queue) <= sent[id]
        /\ received[id] = 1 =>
               channel[id].rx_dropped /\ scan_receiver # Some(id)

\* C5's case: a scan has sent its value and the caller has received it.
C5_Witness ==
    \E id \in Scans : sent[id] = 1 /\ received[id] = 1

\* The number of raw connections the analysed files of a result hold.
RECURSIVE ConnectionCount(_, _)
ConnectionCount(r, i) ==
    IF i > Len(r.entries) THEN 0
    ELSE Len(AnalyzeFileContent(r.entries[i], r.outcomes[i]).connections)
         + ConnectionCount(r, i + 1)

\* C6, the state part: while resolutions may run the walk is over, the file
\* set holds every collected file and every file has been extracted; a
\* value is sent only with every raw connection resolved.
C6_Barriers ==
    /\ \A id \in Scans :
          worker[id].pc = "resolve" =>
              /\ worker[id].stack = <<>>
              /\ worker[id].project_files_set
                     = ProjectFilesSet(worker[id].walker_entries)
              /\ \A i \in 1..Len(worker[id].walker_entries) :
                     worker[id].outcomes[i] # "pending"
    /\ \A r \in Delivered :
          /\ \A i \in 1..Len(r.entries) : r.outcomes[i] # "pending"
          /\ Len(r.connections) = ConnectionCount(r, 1)

\* C6, the step part: no step taken while resolutions run changes the file
\* set.
C6_FileSetFrozen ==
    \A id \in Scans :
        (worker[id].pc = "resolve" /\ worker'[id].pc = "resolve")
            => worker'[id].project_files_set = worker[id].project_files_set

\* C6: within one scan, no resolution starts before discovery and every
\* extraction are complete, the result is sent only after every connection
\* was resolved, and the file set does not change while resolutions run.
C6_ResolutionAfterExtraction == []C6_Barriers /\ [][C6_FileSetFrozen]_vars

\* C6's case: a resolution has finished while another of the same scan has
\* not.
C6_Witness ==
    \E id \in Scans :
        /\ worker[id].pc = "resolve"
        /\ \E j, k \in 1..Len(worker[id].resolved) :
              worker[id].resolved[j] # None /\ worker[id].resolved[k] = None

\* C7: the result the caller holds, and the sections generated from it,
\* come from the most recently started scan; each call has a channel of its
\* own (the value on the n-th channel is the n-th call's) and the caller
\* polls the channel of the latest call only.
C7_ResultIsOfLatestScan ==
    /\ scan_status.tag = "Completed" => scan_status.scan = scan_count
    /\ \A name \in DOMAIN sections :
          sections[name] # None => Unwrap(sections[name]).scan = scan_count
    /\ scan_receiver # None => scan_receiver = Some(scan_count)
    /\ \A c \in Scans : \A m \in Range(channel[c].queue) : m.scan = c

\* C7's case: the result of a second scan has replaced that of the first.
C7_Witness ==
    /\ scan_count = 2
    /\ scan_status.tag = "Completed"
    /\ scan_status.scan = 2
    /\ sections.structure # None
    /\ received[1] = 1

\* A file that cannot be read or parsed, or whose extension is none of the
\* supported ones.
Fails(path, env) ==
    \/ env # "ok"
    \/ Extension(path) = None
    \/ Unwrap(Extension(path)) \notin SupportedExtensions

\* The connections and definitions a result must hold: those of the files
\* that do not fail, file by file.
ExpectedConnections(r) ==
    Flatten([i \in 1..Len(r.entries) |->
        IF Fails(r.entries[i], r.outcomes[i]) THEN <<>>
        ELSE [n \in 1..Len(ImportsOf(Physical(r.entries[i]))) |->
                 [source_file |-> Clean(r.entries[i]),
                  imported_string |-> ImportsOf(Physical(r.entries[i]))[n]]]])

ExpectedDefinitions(r) ==
    Flatten([i \in 1..Len(r.entries) |->
        IF Fails(r.entries[i], r.outcomes[i]) THEN <<>>
        ELSE [n \in 1..Len(DefinitionsOf(Physical(r.entries[i]))) |->
                 [source_file |-> r.entries[i],
                  symbol_name |->
                      DefinitionsOf(Physical(r.entries[i]))[n].symbol_name]]])

\* C8: no scan delivers an error, whatever fails; a failing file stays in
\* files and contributes no connection and no definition, and the result
\* holds the connections and definitions of all other files.
C8_FileFailuresAreLocal ==
    /\ \A m \in SentValues : m.ok
    /\ scan_status.tag # "Error"
    /\ \A r \in Delivered :
          /\ \A i \in 1..Len(r.entries) : Clean(r.entries[i]) \in Range(r.files)
          /\ [k \in 1..Len(r.connections) |->
                 [source_file |-> r.connections[k].source_file,
                  imported_string |-> r.connections[k].imported_string]]
             = ExpectedConnections(r)
          /\ [k \in 1..Len(r.definitions) |->
                 [source_file |-> r.definitions[k].source_file,
                  symbol_name |-> r.definitions[k].symbol_name]]
             = ExpectedDefinitions(r)

\* C8's case: the caller holds a result of a scan in which one file could
\* not be read, one could not be parsed or one was unsupported, and another
\* file contributed connections.
C8_Witness ==
    /\ scan_status.tag = "Completed"
    /\ \E i, j \in 1..Len(scan_status.entries) :
          /\ scan_status.outcomes[i] \in {"read_error", "parse_error"}
          /\ scan_status.outcomes[j] = "ok"
          /\ Extension(scan_status.entries[j]) = Some("js")
    /\ scan_status.connections # <<>>

\* The directories on the way from the root (included) down to a path, and
\* the same without the root.
DirsFrom(root_path, path) ==
    {path[k] : k \in Len(Clean(root_path))..(Len(path) - 1)}
DirsBelow(root_path, path) ==
    {path[k] : k \in (Len(Clean(root_path)) + 1)..(Len(path) - 1)}

\* C9: the walk never lists an ignored directory, and no collected or
\* delivered file lies in an ignored directory of the scanned tree, at any
\* depth, or has an ignored file name.
C9_IgnoredArePruned ==
    /\ \A id \in Scans :
          /\ \A d \in worker[id].descended : d[Len(d)] \notin IGNORED_DIRS
          /\ \A i \in 1..Len(worker[id].walker_entries) :
                LET p == Clean(worker[id].walker_entries[i].path)
                IN /\ DirsFrom(worker[id].root_path, p) \cap IGNORED_DIRS = {}
                   /\ p[Len(p)] \notin IGNORED_FILES
    /\ \A r \in Delivered : \A f \in Range(r.files) :
          /\ DirsFrom(r.root_path, f) \cap IGNORED_DIRS = {}
          /\ f[Len(f)] \notin IGNORED_FILES

\* C9's case: a result was delivered for a tree that holds a file in an
\* ignored directory two levels down and a file that is kept.
C9_Witness ==
    /\ scan_status.tag = "Completed"
    /\ Physical(scan_status.root_path) = <<RootDir, N("proj")>>
    /\ FileBuilt \in fs
    /\ scan_status.files # <<>>

\* The regular files under the root that the ignore lists do not exclude.
NotExcluded(root_path) ==
    {f \in fs :
        /\ Len(Physical(root_path)) < Len(f)
        /\ IsPrefix(Physical(root_path), f)
        /\ {f[k] : k \in (Len(Physical(root_path)) + 1)..(Len(f) - 1)}
               \cap IGNORED_DIRS = {}
        /\ f[Len(f)] \notin IGNORED_FILES}

\* C10: files holds every regular file under the root that the ignore lists
\* do not exclude, each exactly once, supported or not, whatever the name of
\* the root directory.
C10_FilesComplete ==
    \A r \in Delivered :
        /\ {Physical(f) : f \in Range(r.files)} = NotExcluded(r.root_path)
        /\ Len(r.files) = Cardinality(NotExcluded(r.root_path))

\* C11: the connections of a delivered result are, in the same order, one
\* per detected connection, each with that connection's imported_string and
\* its source_file normalized; nothing is merged, and nothing is dropped
\* because it could not be resolved.
C11_EveryConnectionKept ==
    \A r \in Delivered :
        /\ Len(r.connections) = Len(r.detected)
        /\ \A k \in 1..Len(r.detected) :
              /\ r.connections[k].imported_string
                     = r.detected[k].imported_string
              /\ r.connections[k].source_file
                     = Clean(r.detected[k].source_file)

\* C11's case: a delivered result of a scan from a root that is not
\* normalized holds the same specifier of one file twice and a connection
\* that could not be resolved.
C11_Witness ==
    \E r \in Delivered :
        /\ r.root_path = <<CurDir, N("proj")>>
        /\ \E j, k \in 1..Len(r.connections) :
              /\ j # k
              /\ r.detected[j] = r.detected[k]
              /\ r.connections[j].resolved_target # None
        /\ \E k \in 1..Len(r.connections) :
              r.connections[k].resolved_target = None

\* C12: when a folder is scanned again with nothing changed, every result
\* holds the same files, the same connections and the same definitions, as
\* sets, as the first result, in whatever order the directories were listed
\* and the tasks of the two parallel loops ran.
C12_RescanYieldsSameSets ==
    first_scan.result # None =>
        \A r \in Delivered :
            (/\ Some(r.root_path) = first_scan.root_path
             /\ SetView(r).outcomes = Unwrap(first_scan.result).outcomes)
            => /\ SetView(r).files = Unwrap(first_scan.result).files
               /\ SetView(r).connections
                      = Unwrap(first_scan.result).connections
               /\ SetView(r).definitions
                      = Unwrap(first_scan.result).definitions

\* C12's case: the caller holds the result of the second scan of a folder,
\* with connections of two files and a definition.
C12_Witness ==
    /\ first_scan.result # None
    /\ scan_status.tag = "Completed"
    /\ scan_status.scan = 2
    /\ Some(scan_status.root_path) = first_scan.root_path
    /\ \E j, k \in 1..Len(scan_status.connections) :
          scan_status.connections[j].source_file
              # scan_status.connections[k].source_file
    /\ scan_status.definitions # <<>>

\* A call of MyApp::update in which the user does nothing.
IdleFrame == Update(FALSE, None, FALSE, None)

\* A call of MyApp::update of the specification Spec.
AnyFrame ==
    \E clicked \in BOOLEAN, picked \in Picks :
        Update(clicked, picked, FALSE, None)

\* C13: starting a scan and polling never block.  While no value is in
\* the channel an update can be completed, whatever the worker has done;
\* the update that starts a scan returns with the receiver while the worker
\* has not taken a step and the channel is empty; and an update that finds
\* no value in the channel leaves the status Scanning, keeps the receiver
\* and requests a repaint.
C13_StartAndPollNeverBlock ==
    /\ []((scan_receiver # None /\ ~CanReceive(scan_receiver)) =>
             ENABLED IdleFrame)
    /\ [][scan_count' # scan_count =>
            /\ scan_receiver' = Some(scan_count')
            /\ channel'[scan_count'].queue = <<>>
            /\ worker'[scan_count'].pc = "start"
            /\ sent'[scan_count'] = 0]_vars
    /\ [][(AnyFrame /\ scan_receiver # None /\ ~CanReceive(scan_receiver)) =>
            /\ scan_status.tag = "Scanning"
            /\ scan_status'.tag = "Scanning"
            /\ scan_receiver' = scan_receiver
            /\ repaint_requested']_vars

\* C13's case: the worker is in the middle of a scan, the channel is
\* empty, and an update has polled it and asked for a repaint.
C13_Witness ==
    /\ scan_status.tag = "Scanning"
    /\ repaint_requested
    /\ \E id \in Scans :
          /\ scan_receiver = Some(id)
          /\ worker[id].pc = "resolve"
          /\ channel[id].queue = <<>>

\* The four sections generated from the analysis.
AnalysisSections ==
    {"structure", "connections", "definitions", "inverse_usage"}

\* C14: a new scan replaces the previous one.  The update that starts a
\* scan leaves the status Scanning and all five sections absent; after
\* every update the structure, connections, definitions and inverse-usage
\* sections are all present when the status is Completed and all absent
\* otherwise, and the file contents are absent unless it is Completed; and
\* a section that is present was generated from the latest scan.
C14_NewScanReplacesPrevious ==
    /\ [][scan_count' # scan_count =>
            /\ scan_status'.tag = "Scanning"
            /\ \A name \in DOMAIN sections' : sections'[name] = None]_vars
    /\ [](/\ \A name \in AnalysisSections :
               sections[name] # None <=> scan_status.tag = "Completed"
          /\ sections.file_content # None => scan_status.tag = "Completed"
          /\ \A name \in DOMAIN sections :
               sections[name] # None =>
                   Unwrap(sections[name]).scan = scan_count)

\* C14's case: a second scan was started after the first had completed
\* and its sections, the file contents included, had been generated with
\* a filter.
C14_Witness ==
    /\ scan_count = 2
    /\ received[1] = 1
    /\ scan_status.tag = "Scanning"
    /\ include_file_content
    /\ filters.structure # <<>>
    /\ \A name \in DOMAIN sections : sections[name] = None

\* ------------------------------------------ claims on the section generators
\* The members of a set of paths in ascending path order.
Ascending(S) ==
    CHOOSE q \in [1..Cardinality(S) -> S] :
        \A i, j \in 1..Cardinality(S) : i < j => PathLess(q[i], q[j])

\* An item whose text starts at the left margin with a branch, and one
\* whose text starts with an indentation and a branch.
StartsWith(text, prefix) ==
    Len(text) >= Len(prefix) /\ SubSeq(text, 1, Len(prefix)) = prefix
IsGroupItem(item) ==
    StartsWith(item.display, TEE) \/ StartsWith(item.display, CORNER)
IsMemberItem(item) ==
    \E indent \in {BAR, BLANK}, branch \in {TEE, CORNER} :
        StartsWith(item.display, indent \o branch)

\* The indices of the group items of a section, in order, and the indices
\* of the member items that follow the group item at g.
GroupIndices(out) ==
    SelectSeq([k \in 1..Len(out) |-> k], LAMBDA k : IsGroupItem(out[k]))
MembersOf(out, g) ==
    SelectSeq([k \in 1..Len(out) |-> k], LAMBDA k :
        /\ k > g
        /\ IsMemberItem(out[k])
        /\ \A m \in (g + 1)..k : ~IsGroupItem(out[m]))

\* The number of elements of a sequence that satisfy a test.
Count(v, Test(_)) == Cardinality({k \in 1..Len(v) : Test(v[k])})

\* C15: the inverse-usage section lists the distinct resolved targets, in
\* ascending path order, as file references; each is followed by one file
\* reference per connection resolved to it, giving its source file, in
\* ascending path order; connections without target add nothing.
C15_InverseUsageListing ==
    (report_in.fn = "inverse_usage" /\ report_out # None) =>
        LET out == Unwrap(report_out)
            conns == report_in.connections
            targets == UNION {conns[k].resolved_target : k \in 1..Len(conns)}
            groups == GroupIndices(out)
        IN /\ Len(groups) = Cardinality(targets)
           /\ \A i \in 1..Len(groups) :
                 /\ out[groups[i]].tag = "FilePath"
                 /\ out[groups[i]].path = Ascending(targets)[i]
           /\ \A i \in 1..Len(groups) :
                 LET members == MembersOf(out, groups[i])
                     target == out[groups[i]].path
                 IN /\ \A m \in 1..Len(members) :
                          out[members[m]].tag = "FilePath"
                    /\ \A m \in 1..(Len(members) - 1) :
                          ~PathLess(out[members[m + 1]].path,
                                    out[members[m]].path)
                    /\ \A f \in {conns[k].source_file : k \in 1..Len(conns)} :
                          Count(members, LAMBDA k : out[k].path = f)
                          = Count(conns, LAMBDA c :
                                /\ c.source_file = f
                                /\ c.resolved_target = Some(target))
                    /\ Len(members)
                          = Count(conns, LAMBDA c :
                                c.resolved_target = Some(target))
           /\ Count(out, LAMBDA item : item.tag = "FilePath")
                 = Cardinality(targets)
                   + Count(conns, LAMBDA c : c.resolved_target # None)

\* C15's case: c.js and then a.js import b.js, a third connection has no
\* target, and the section was generated.
C15_Witness ==
    /\ report_in.fn = "inverse_usage"
    /\ report_out # None
    /\ Len(report_in.connections) = 3
    /\ report_in.connections[1].source_file = ReportC
    /\ report_in.connections[1].resolved_target = Some(ReportB)
    /\ report_in.connections[2].resolved_target = None
    /\ report_in.connections[3].source_file = ReportA
    /\ report_in.connections[3].resolved_target = Some(ReportB)
    /\ \E k \in 1..(Len(Unwrap(report_out)) - 2) :
          /\ Unwrap(report_out)[k].path = ReportB
          /\ Unwrap(report_out)[k + 1].path = ReportA
          /\ Unwrap(report_out)[k + 2].path = ReportC

\* The specifier an entry of the connections section shows, and the target
\* the items after the entry give: a file reference after an arrow, or
\* none after the marker.
EntrySpecifier(item) == SubSeq(item.display, 9, Len(item.display))
EntryTarget(out, k) ==
    IF k + 2 <= Len(out) /\ out[k + 1] = PlainText(ARROW)
       /\ out[k + 2].tag = "FilePath"
    THEN Some(out[k + 2].path)
    ELSE None
EntryIsComplete(out, k) ==
    \/ /\ k + 2 <= Len(out)
       /\ out[k + 1] = PlainText(ARROW)
       /\ out[k + 2].tag = "FilePath"
    \/ /\ k + 1 <= Len(out)
       /\ out[k + 1] = PlainText(EXTERNAL_OR_UNRESOLVED)

\* C16: the connections section lists each distinct source file once, in
\* ascending path order, as a file reference; each is followed by one entry
\* per connection of that file, by imported_string ascending; an entry of a
\* connection with a target is followed by an arrow and the target as a
\* file reference, an entry without one by ' (External or Unresolved)'.
C16_ConnectionsListing ==
    (report_in.fn = "connections" /\ report_out # None) =>
        LET out == Unwrap(report_out)
            conns == report_in.connections
            sources == {conns[k].source_file : k \in 1..Len(conns)}
            groups == GroupIndices(out)
        IN /\ Len(groups) = Cardinality(sources)
           /\ \A i \in 1..Len(groups) :
                 /\ out[groups[i]].tag = "FilePath"
                 /\ out[groups[i]].path = Ascending(sources)[i]
           /\ \A i \in 1..Len(groups) :
                 LET entries == MembersOf(out, groups[i])
                     file == out[groups[i]].path
                 IN /\ \A m \in 1..Len(entries) :
                          /\ out[entries[m]].tag = "PlainText"
                          /\ EntryIsComplete(out, entries[m])
                    /\ \A m \in 1..(Len(entries) - 1) :
                          ~TextLess(EntrySpecifier(out[entries[m + 1]]),
                                    EntrySpecifier(out[entries[m]]))
                    /\ Len(entries)
                          = Count(conns, LAMBDA c : c.source_file = file)
                    /\ \A n \in 1..Len(conns) :
                          conns[n].source_file = file =>
                              Count(entries, LAMBDA k :
                                  /\ EntrySpecifier(out[k])
                                         = ImportText(conns[n].imported_string)
                                  /\ EntryTarget(out, k)
                                         = conns[n].resolved_target)
                              = Count(conns, LAMBDA c : c = conns[n])

\* C16's case: a.js imports lodash, which has no target, and then ./b.js,
\* c.js imports ./b, and the section was generated.
C16_Witness ==
    /\ report_in.fn = "connections"
    /\ report_out # None
    /\ Len(report_in.connections) = 3
    /\ report_in.connections[1].source_file = ReportC
    /\ report_in.connections[2].source_file = ReportA
    /\ report_in.connections[2].resolved_target = None
    /\ report_in.connections[3].source_file = ReportA
    /\ report_in.connections[3].imported_string = <<CurDir, NE("b", "js")>>
    /\ \E k \in 1..Len(Unwrap(report_out)) :
          Unwrap(report_out)[k] = PlainText(EXTERNAL_OR_UNRESOLVED)

\* The heading of a file's group in the definitions section.
DefinitionsHeading(root_path, file) ==
    PlainText(<<35, 35, 35, 32, 96>>
              \o (IF StripPrefix(file, root_path) = None THEN PathText(file)
                  ELSE PathText(Unwrap(StripPrefix(file, root_path))))
              \o <<96, 10>>)

\* A definition line reads "L<number> <kind> <name>": the positions where
\* its words start, and the word that starts at a position.
WordStarts(text) ==
    SelectSeq([k \in 1..Len(text) |-> k], LAMBDA k :
        /\ text[k] \notin {32, 10}
        /\ (k = 1 \/ text[k - 1] = 32))
WordAt(text, from) ==
    SubSeq(text, from,
           (CHOOSE e \in from..Len(text) :
               /\ text[e] \in {32, 10}
               /\ \A k \in from..(e - 1) : text[k] \notin {32, 10}) - 1)
IsDefinitionLine(item) ==
    /\ item.tag = "PlainText"
    /\ Len(item.display) >= 2
    /\ item.display[1] = 76
    /\ item.display[Len(item.display)] = 10
    /\ Len(WordStarts(item.display)) = 3

\* The value of a decimal numeral.
RECURSIVE NumeralValue(_)
NumeralValue(digits) ==
    IF digits = <<>> THEN 0
    ELSE 10 * NumeralValue(SubSeq(digits, 1, Len(digits) - 1))
         + (digits[Len(digits)] - 48)

LineNumberOf(item) ==
    NumeralValue(Tail(WordAt(item.display, 1)))
KindOf(item) == WordAt(item.display, WordStarts(item.display)[2])
NameOf(item) == WordAt(item.display, WordStarts(item.display)[3])

\* The indices of the headings of the definitions section, in order, and
\* of the definition lines between the heading at h and the next heading.
HeadingIndices(out) ==
    SelectSeq([k \in 1..Len(out) |-> k], LAMBDA k :
        StartsWith(out[k].display, <<35, 35, 35, 32, 96>>))
LinesOf(out, h) ==
    SelectSeq([k \in 1..Len(out) |-> k], LAMBDA k :
        /\ k > h
        /\ IsDefinitionLine(out[k])
        /\ \A m \in (h + 1)..k :
              ~StartsWith(out[m].display, <<35, 35, 35, 32, 96>>))

\* C17: the definitions section has one group per distinct source file, in
\* ascending path order; a group holds one line per definition of the file,
\* in non-decreasing line_number order, and in all lines of a group the
\* kind starts at one column and the symbol name at one column.
C17_DefinitionsListing ==
    (report_in.fn = "definitions" /\ report_out # None) =>
        LET out == Unwrap(report_out)
            defs == report_in.definitions
            sources == {defs[k].source_file : k \in 1..Len(defs)}
            headings == HeadingIndices(out)
        IN /\ Len(headings) = Cardinality(sources)
           /\ \A i \in 1..Len(headings) :
                 LET file == Ascending(sources)[i]
                     lines == LinesOf(out, headings[i])
                 IN /\ out[headings[i]]
                          = DefinitionsHeading(report_in.root_path, file)
                    /\ Len(lines)
                          = Count(defs, LAMBDA d : d.source_file = file)
                    /\ \A m \in 1..(Len(lines) - 1) :
                          LineNumberOf(out[lines[m]])
                              <= LineNumberOf(out[lines[m + 1]])
                    /\ \A n \in 1..Len(defs) :
                          defs[n].source_file = file =>
                              Count(lines, LAMBDA k :
                                  /\ LineNumberOf(out[k]) = defs[n].line_number
                                  /\ KindOf(out[k]) = Chars(defs[n].kind)
                                  /\ NameOf(out[k])
                                         = Chars(defs[n].symbol_name))
                              = Count(defs, LAMBDA d : d = defs[n])
                    /\ \A m, n \in 1..Len(lines) :
                          WordStarts(out[lines[m]].display)
                              = WordStarts(out[lines[n]].display)
           /\ Count(out, IsDefinitionLine) = Len(defs)

\* C17's case: a.js has a class in line 10 and then a function in line 1,
\* b.js has a definition too, and the section was generated.
C17_Witness ==
    /\ report_in.fn = "definitions"
    /\ report_out # None
    /\ Len(report_in.definitions) = 3
    /\ report_in.definitions[1].source_file = ReportB
    /\ report_in.definitions[2].source_file = ReportA
    /\ report_in.definitions[2].kind = "Class"
    /\ report_in.definitions[2].line_number = 10
    /\ report_in.definitions[3].source_file = ReportA
    /\ report_in.definitions[3].kind = "Function"
    /\ report_in.definitions[3].line_number = 1
    /\ Len(HeadingIndices(Unwrap(report_out))) = 2

\* The items of the tree of a structure section: all but the two items of
\* the heading and the closing fence.
TreeOf(out) == SubSeq(out, 3, Len(out) - 1)

\* An item of the tree shows a directory when its text ends with '/'; its
\* depth is the number of vertical bars before its branch.
ShowsDirectory(item) == item.display[Len(item.display)] = 47
DepthOf(item) ==
    Cardinality({k \in 1..Len(item.display) : item.display[k] = 9474})

\* The item a tree item is drawn beneath: the nearest item before it that
\* is one level less deep.
DrawnBeneath(tree, k) ==
    {j \in 1..(k - 1) :
        /\ DepthOf(tree[j]) + 1 = DepthOf(tree[k])
        /\ \A m \in (j + 1)..(k - 1) :
              DepthOf(tree[m]) + 1 # DepthOf(tree[k])}

\* C18: the structure section is a depth-first rendering: every item of a
\* file or directory that is not directly in the root is drawn beneath the
\* item of its own parent directory, and an item directly in the root is
\* drawn at the left margin, for all names, those with leading zeros in a
\* digit run ('01', '1') included.
C18_DepthFirstTree ==
    (report_in.fn = "structure" /\ report_out # None) =>
        LET tree == TreeOf(Unwrap(report_out))
        IN \A k \in 1..Len(tree) :
              IF Parent(tree[k].path) = Some(report_in.root_path)
              THEN DepthOf(tree[k]) = 0
              ELSE /\ DrawnBeneath(tree, k) # {}
                   /\ \A j \in DrawnBeneath(tree, k) :
                         /\ ShowsDirectory(tree[j])
                         /\ Some(tree[j].path) = Parent(tree[k].path)

\* The files of a list that lie under the root, and the directories
\* between the root and one of them.
FilesUnder(root_path, files) ==
    {files[k] : k \in {n \in 1..Len(files) :
        /\ Len(root_path) < Len(files[n])
        /\ SubSeq(files[n], 1, Len(root_path)) = root_path}}
DirectoriesUnder(root_path, files) ==
    UNION {{SubSeq(f, 1, n) : n \in (Len(root_path) + 1)..(Len(f) - 1)} :
              f \in FilesUnder(root_path, files)}

\* C19: the tree of the structure section has exactly one item for every
\* file of the list under the root and exactly one for every directory
\* between the root and such a file, and no other item.
C19_OneItemPerSegment ==
    (report_in.fn = "structure" /\ report_out # None) =>
        LET tree == TreeOf(Unwrap(report_out))
            files == FilesUnder(report_in.root_path, report_in.files)
            dirs == DirectoriesUnder(report_in.root_path, report_in.files)
        IN /\ \A f \in files :
                 Count(tree, LAMBDA item :
                     item.path = f /\ ~ShowsDirectory(item)) = 1
           /\ \A d \in dirs :
                 Count(tree, LAMBDA item :
                     item.path = d /\ ShowsDirectory(item)) = 1
           /\ Len(tree) = Cardinality(files) + Cardinality(dirs)

\* C19's case: two of three files share a directory, a third lies two
\* directories deep, and the section was generated.
C19_Witness ==
    /\ report_in.fn = "structure"
    /\ report_out # None
    /\ report_in.root_path = <<RootDir, N("proj")>>
    /\ report_in.files =
          << <<RootDir, N("proj"), N("01"), NE("a", "js")>>,
             <<RootDir, N("proj"), N("01"), NE("c", "js")>>,
             <<RootDir, N("proj"), N("sub"), N("deep"), NE("x", "js")>> >>
    /\ Len(Unwrap(report_out)) = 9

\* Two names that are equal except for one maximal digit run, which starts
\* at the i-th character of both.
DifferInRunAt(s, t, i) ==
    /\ i <= Len(s) /\ i <= Len(t)
    /\ SubSeq(s, 1, i - 1) = SubSeq(t, 1, i - 1)
    /\ IsAsciiDigit(s[i]) /\ IsAsciiDigit(t[i])
    /\ (i = 1 \/ ~IsAsciiDigit(s[i - 1]))
    /\ SubSeq(s, RunEnd(s, i), Len(s)) = SubSeq(t, RunEnd(t, i), Len(t))

\* The number a digit run denotes is smaller than that of another.
ValueLess(run1, run2) == NumberLess(StripZeros(run1), StripZeros(run2))

\* C20: of two files of one directory whose names are equal except for one
\* digit run, the one whose run denotes the smaller number is listed first
\* in the structure section, however long the runs are.
C20_DigitRunsByValue ==
    (report_in.fn = "structure" /\ report_out # None) =>
        LET tree == TreeOf(Unwrap(report_out))
        IN \A j, k \in 1..Len(tree) :
              LET s == NameText(tree[j].path[Len(tree[j].path)])
                  t == NameText(tree[k].path[Len(tree[k].path)])
              IN (/\ Parent(tree[j].path) = Parent(tree[k].path)
                  /\ \E i \in 1..Len(s) :
                        /\ DifferInRunAt(s, t, i)
                        /\ ValueLess(SubSeq(s, i, RunEnd(s, i) - 1),
                                     SubSeq(t, i, RunEnd(t, i) - 1)))
                 => j < k

\* ------------------------------------------------ claims on the sections
\* C21: every item of the structure, connections, inverse-usage and
\* definitions sections is tagged PlainText or FilePath, and every
\* FilePath item carries the path of a file of the scan, an element of
\* files.
C21_FileReferencesAreFiles ==
    scan_status.tag = "Completed" =>
        \A name \in AnalysisSections :
            sections[name] # None =>
                LET items == Unwrap(sections[name]).items
                IN \A k \in 1..Len(items) :
                      /\ items[k].tag \in {"PlainText", "FilePath"}
                      /\ items[k].tag = "FilePath" =>
                            items[k].path \in Range(scan_status.files)

\* C25: whenever the status is Completed, each of the structure,
\* connections, definitions and inverse-usage sections is the report
\* generated from the current scan result filtered by the current text of
\* that section's filter, after any sequence of filter edits.
C25_SectionsFollowFilters ==
    scan_status.tag = "Completed" =>
        \A name \in AnalysisSections :
            sections[name] =
                GeneratedSections(scan_status, filters,
                                  include_file_content)[name]

\* C26: in every scan result the source_file of every connection and of
\* every definition is an element of files, compared as stored paths, for
\* every root path handed to start_analysis.
C26_SourcesAreFiles ==
    \A r \in Delivered :
        /\ \A k \in 1..Len(r.connections) :
              r.connections[k].source_file \in Range(r.files)
        /\ \A k \in 1..Len(r.definitions) :
              r.definitions[k].source_file \in Range(r.files)

\* ------------------------------------------------- claims on the status
\* The scans that are outstanding: started, and the result not yet taken
\* from the channel.
Outstanding ==
    {id \in Scans :
        \/ worker[id].pc \notin {"idle", "done"}
        \/ channel[id].queue # <<>>}

\* C27: between updates the receiver is present exactly when the status is
\* Scanning, so at most one scan is outstanding, and that one is the scan
\* the receiver belongs to: no scan was started while another was under
\* way.
C27_ReceiverIffScanning ==
    /\ scan_receiver # None <=> scan_status.tag = "Scanning"
    /\ Cardinality(Outstanding) <= 1
    /\ \A id \in Outstanding : scan_receiver = Some(id)

\* C27's case: a second scan is under way after the first has completed.
C27_Witness ==
    /\ scan_count = 2
    /\ received[1] = 1
    /\ scan_status.tag = "Scanning"
    /\ scan_receiver = Some(2)
    /\ worker[2].pc = "extract"

\* The changes of status the claim allows.
AllowedChanges ==
    {<<"Idle", "Scanning">>, <<"Scanning", "Completed">>,
     <<"Scanning", "Error">>, <<"Completed", "Scanning">>,
     <<"Error", "Scanning">>}

\* C28: the status changes only along Idle to Scanning, Scanning to
\* Completed or Error, and Completed or Error to Scanning; it never
\* returns to Idle, and it becomes Completed or Error only in a step that
\* receives a scan result.
C28_StatusChanges ==
    [][scan_status' # scan_status =>
          /\ <<scan_status.tag, scan_status'.tag>> \in AllowedChanges
          /\ scan_status'.tag \in {"Completed", "Error"} =>
                /\ CanReceive(scan_receiver)
                /\ received' # received]_vars

\* C28's case: the status has gone from Idle to Scanning to Completed to
\* Scanning and is Completed again.
C28_Witness ==
    /\ scan_count = 2
    /\ received[1] = 1
    /\ received[2] = 1
    /\ scan_status.tag = "Completed"

\* The frame in which the button is clicked and the folder picker is
\* dismissed (rfd's pick_folder returns None).
PickerDismissed == Update(TRUE, None, FALSE, None)

\* C30: a frame in which the folder picker is dismissed starts no worker,
\* and leaves the status, the receiver and the generated sections as the
\* poll of that frame left them: unchanged when no result was waiting.
C30_DismissedPickerChangesNothing ==
    [][PickerDismissed =>
          /\ scan_count' = scan_count
          /\ worker' = worker
          /\ scan_status' =
                IF CanReceive(scan_receiver)
                THEN StatusOf(Head(channel[Unwrap(scan_receiver)].queue))
                ELSE scan_status
          /\ scan_receiver' = ReceiverAfterPoll(scan_receiver)
          /\ ~CanReceive(scan_receiver) => sections' = sections]_vars

\* C30's case: a scan is Completed, its sections are shown, the button is
\* enabled, and the frame with a dismissed picker can be taken and keeps
\* the sections.
C30_Witness ==
    /\ scan_status.tag = "Completed"
    /\ scan_receiver = None
    /\ sections.structure # None
    /\ Unwrap(sections.structure).items # <<>>
    /\ ENABLED (PickerDismissed /\ sections' = sections)

\* ------------------------------------------------ scheduled to the end
\* The steps of the worker thread of scan id.
WorkerRuns(id) ==
    \/ WalkRoot(id)
    \/ WalkStep(id)
    \/ CollectProjectFiles(id)
    \/ \E i \in 1..Len(worker[id].initial_results) :
          \E env \in Environments : ExtractFile(id, i, env)
    \/ MergeResults(id)
    \/ \E j \in 1..Len(worker[id].resolved) : ResolveConnection(id, j)
    \/ SendResult(id)

\* The poll of a frame takes the waiting result. While a scan is
\* outstanding every frame asks for the next one by ctx.request_repaint()
\* (main.rs 147-149), and every frame polls, whatever the user does in it.
PollReceives ==
    /\ CanReceive(scan_receiver)
    /\ received' = [received EXCEPT ![Unwrap(scan_receiver)] = @ + 1]

\* The worker thread of scan id has been spawned and has not returned.
Running(id) == worker[id].pc \notin {"idle", "done"}

\* The update loop and the worker threads keep being scheduled: weak
\* fairness of the receiving poll, and of the steps of each worker, whose
\* enabling condition is Running(id).
SpecLive ==
    /\ Init
    /\ [][Next]_vars
    /\ WF_received(PollReceives)
    /\ \A id \in Scans :
          \/ []<>(~Running(id))
          \/ []<><<WorkerRuns(id)>>_vars

\* C29: when the worker thread and the update loop keep being scheduled,
\* a status of Scanning is eventually followed by Completed or Error, with
\* the analysis button enabled again.
C29_ScanEnds ==
    (scan_status.tag = "Scanning") ~>
        (/\ scan_status.tag \in {"Completed", "Error"}
         /\ AnalysisButtonEnabled(scan_status))

\* C29's case: the first scan found files, its worker has returned, its
\* result was received and the button is enabled again.
C29_Witness ==
    /\ scan_count = 1
    /\ worker[1].pc = "done"
    /\ sent[1] = 1
    /\ received[1] = 1
    /\ scan_receiver = None
    /\ scan_status.tag = "Completed"
    /\ scan_status.files # <<>>
    /\ AnalysisButtonEnabled(scan_status)

\* ------------------------------------------ calls of analyze_file_content
ExtractInit ==
    /\ ex_in \in [path : ExtractPaths, statement : Statements]
    /\ ex_out = None
    /\ report_in = NoReport
    /\ report_out = None
    /\ rq = [source_file |-> <<>>, import_str |-> <<>>, project_files |-> {}]
    /\ ra = [done |-> TRUE, result |-> None]
    /\ fs = {}
    /\ scan_status = [tag |-> "Idle"]
    /\ scan_receiver = None
    /\ UiInit
    /\ scan_count = 0
    /\ worker = [id \in Scans |-> NoWorker("idle")]
    /\ channel = [id \in Scans |-> [queue |-> <<>>, rx_dropped |-> FALSE]]
    /\ sent = [id \in Scans |-> 0]
    /\ received = [id \in Scans |-> 0]
    /\ first_scan = [root_path |-> None, result |-> None]

AnalyzeFile(env) ==
    /\ ex_out = None
    /\ ex_out' =
          Some([env |-> env,
                result |-> AnalyzeFileText(ex_in.path, ex_in.statement, env)])
    /\ UNCHANGED <<ex_in, resolve_vars, report_vars, fs, scan_status,
                   scan_receiver, sections, scan_count, worker, channel,
                   sent, received, first_scan, ui_vars>>

ExtractNext == \E env \in Environments : AnalyzeFile(env)

SpecExtract == ExtractInit /\ [][ExtractNext]_vars

\* ------------------------------------------- claims on the extraction
\* C22: js, jsx, mjs and cjs select the JavaScript grammar and a definition
\* query whose class name is an identifier; ts selects the TypeScript and
\* tsx the TSX grammar, both with a class name that is a type_identifier;
\* a file of any other extension, or of none, yields no connection and no
\* definition; and `class Foo {}` yields the definition Foo of kind Class
\* under every supported extension, .js and .tsx among them.
C22_GrammarByExtension ==
    /\ \A e \in {"js", "jsx", "mjs", "cjs"} :
          /\ language_ref(Some(e)) = Some("javascript")
          /\ ClassNamePattern(Some(e)) = Some("identifier")
    /\ language_ref(Some("ts")) = Some("typescript")
    /\ language_ref(Some("tsx")) = Some("tsx")
    /\ ClassNamePattern(Some("ts")) = Some("type_identifier")
    /\ ClassNamePattern(Some("tsx")) = Some("type_identifier")
    /\ ex_out # None =>
          LET ext == Extension(ex_in.path)
              stmt == ex_in.statement
              r == Unwrap(ex_out).result
          IN /\ (ext = None \/ Unwrap(ext) \notin SupportedExtensions) =>
                    /\ r.connections = <<>>
                    /\ r.definitions = <<>>
             /\ ( /\ ext # None
                  /\ Unwrap(ext) \in SupportedExtensions
                  /\ Unwrap(ex_out).env = "ok"
                  /\ stmt.form = "class"
                  /\ stmt.name = "Foo" ) =>
                    /\ Len(r.definitions) = 1
                    /\ r.definitions[1].symbol_name = "Foo"
                    /\ r.definitions[1].kind = "Class"

\* C22's case: a.tsx with `class Foo {}` was analyzed and a definition was
\* found.
C22_Witness ==
    /\ ex_out # None
    /\ Extension(ex_in.path) = Some("tsx")
    /\ ex_in.statement.form = "class"
    /\ ex_in.statement.name = "Foo"
    /\ Unwrap(ex_out).env = "ok"
    /\ Unwrap(ex_out).result.definitions # <<>>

IsStripped(text, s) ==
    \E i \in 1..Len(text) + 1 : \E j \in 0..Len(text) :
        /\ s = SubSeq(text, i, j)
        /\ \A k \in 1..Len(text) : (k < i \/ k > j) => text[k] \in QuoteChars
        /\ s # <<>> => s[1] \notin QuoteChars /\ s[Len(s)] \notin QuoteChars

\* C24: every connection analyze_file_content returns has an
\* imported_string that is not empty and is the captured literal without
\* the quote (' or ") or backtick characters around it; a literal of
\* which nothing is left yields no connection; and a match yields at most
\* one connection.
C24_ImportedStringStripped ==
    ex_out # None =>
        LET conns == Unwrap(ex_out).result.connections
            literal == ex_in.statement.literal
        IN /\ \A k \in 1..Len(conns) :
                 /\ conns[k].imported_string # <<>>
                 /\ IsStripped(literal, conns[k].imported_string)
           /\ (\A k \in 1..Len(literal) : literal[k] \in QuoteChars) =>
                 conns = <<>>
           /\ Len(conns) <= Len(import_matches(ex_in.statement))
           /\ Len(conns) <= 1

\* C24's case: require(`./b`) gave the connection ./b.
C24_Witness ==
    /\ ex_out # None
    /\ ex_in.statement.form = "require_template"
    /\ ex_in.statement.literal = <<96, 46, 47, 98, 96>>
    /\ Len(Unwrap(ex_out).result.connections) = 1
    /\ Unwrap(ex_out).result.connections[1].imported_string = <<46, 47, 98>>

====
